---- MODULE Spec2Model ----
(***************************************************************************)
(* Housing-listing page monitors of the repository:                        *)
(*   monitor_dynamic.py            run_dynamic_once  (identifier-set mode) *)
(*   monitor.py                    run_once          (text-diff mode, TFC) *)
(*   .github/workflows/monitor.py  run_once          (hash-only mode)      *)
(* One process runs one script; a run loads the state files, iterates over *)
(* the configured URL list and saves the state files at the end.           *)
(***************************************************************************)
EXTENDS Integers, Sequences, FiniteSets, TLC

\* ------------------------------------------------------------------ bounds
\* Number of scheduled runs explored.
MaxRuns == 3
\* Largest number of listing phrases a modelled page holds (above the cap of
\* 50 identifiers of the generic extractor, so that cap is exercised).
MaxUnits == 51
\* Seconds between the starts of two successive runs (the cron interval):
\* half the fetch cooldown, so a run can fall inside or after a cooldown.
Ticks == {150}
\* Largest number of lines of a raw page text given to the normalization
\* pipeline of monitor.py, and of phrases on one of its lines.
MaxLines == 3
MaxWords == 2
\* Number of section headings of the texts given to summarize_diff: one more
\* gap than max_snippets can hold snippets for.
MaxAnchors == 5

\* ------------------------------------------------------- program constants
APT_FILE == "dynamic_apartments.json"
DYN_TEXT_FILE == "dynamic_texts.json"
FAILURE_FILE == "dynamic_failures.json"
COOLDOWN_FILE == "dynamic_cooldowns.json"
LAST_ALERT_FILE == "dynamic_last_alert.json"

\* Two entries of DYNAMIC_URLS, in list order: one routed to a site-specific
\* extractor (cgmrcompliance.com) and one that reaches the generic fallback.
CGM_URL == "https://cgmrcompliance.com/housing-opportunities-1"
EVH_URL == "https://east-village-homes-owner-llc.rentcafewebsite.com/"
DYNAMIC_URLS == <<CGM_URL, EVH_URL>>

\* fetch_rendered_html(url, max_retries = 2)
max_retries == 2
\* set_cooldown(url, 300)
FETCH_COOLDOWN == 300
\* len(added) > 25 or len(removed) > 25
MASSIVE_CHANGE == 25
\* len(removed) > 3
MIN_REMOVED == 3
\* sorted(added)[:20]
MAX_LISTED == 20
\* extract_ids_generic: len(apartments) > 50
GENERIC_CAP == 50


\* monitor.py
HASH_FILE == "hashes.json"
TEXT_FILE == "page_texts.json"
TFC_INCOME_FILE == "tfc_income_options.json"
TFC_URL == "https://tfc.com/about/affordable-re-rentals"
IHR_URL == "https://ihrerentals.com/"
\* Two entries of monitor.py's URLS, in list order: a page handled by the
\* generic text diff and the TF Cornerstone page.
URLS == <<IHR_URL, TFC_URL>>
\* summarize_diff(max_snippets = 5, context_chars = 120, max_chars = 1200)
max_snippets == 5
\* len(new_seg) >= 10
MIN_SEGMENT == 10

\* .github/workflows/monitor.py: HASH_FILE is "hashes.json" too.
NYC_URL == "https://www.nyc.gov/site/hpd/services-and-information/find-affordable-housing-re-rentals.page"
AFNY_URL == "https://afny.org/re-rentals"
WORKFLOW_URLS == <<NYC_URL, AFNY_URL>>

FileNames == {APT_FILE, DYN_TEXT_FILE, FAILURE_FILE, COOLDOWN_FILE, LAST_ALERT_FILE,
              HASH_FILE, TEXT_FILE, TFC_INCOME_FILE}

VARIABLES
    script,       \* which script this deployment runs
    files,        \* the state files on disk: name -> [st, doc]
    pc,           \* "idle" (no process), "loop" (inside the for loop); the
                  \* steps of SpecNormalize: "fetch_page_text", "fetched",
                  \* "normalized_twice"; of SpecSummarize: "summarize_diff",
                  \* "summarized"
    run,          \* number of runs started so far
    now,          \* time.time(), in seconds
    started,      \* time.time() when the last run started
    exit,         \* how the last process ended: "none", "ok", "raised" (by a
                  \* notification error), "oserror" (by a write error), "killed"
    NTFY_TOPIC_URL, \* the environment variable read at import
    idx,          \* position of the for loop in the URL list (1-based)
    changed_any,  \* run_*once local
    apt_state,    \* run_dynamic_once local: url -> sorted list of ids
    text_state,   \* run_dynamic_once local: url -> text
    hashes,       \* monitor.py run_once local: url -> hash
    texts,        \* monitor.py run_once local: url -> text
    tfc_income_state, \* monitor.py run_once local: url -> sorted list of options
    state,        \* workflow run_once local: url -> hash
    loc,          \* locals of the loop body after the last iteration
    sent,         \* notification calls made by the last iteration
    consec,       \* history: fetch_rendered_text returned None this many
                  \* times for the url since it last returned a text
    last_delivered, \* history: when a content-change notification for the
                  \* url was last delivered (0: never)
    skipped,      \* history: None, or the identifier set `ids` that the last
                  \* successful fetch of the url extracted when that was
                  \* skipped as a massive change against the baseline `old`,
                  \* as were `times` successful fetches in a row
    unsaved,      \* history: None, or the locals `loc` of the last iteration
                  \* of monitor.py for the url that recorded a baseline or
                  \* attempted a notification, when no run has left the loop
                  \* normally (and gone on to save) since; `times` iterations
                  \* in a row ended with these locals, `delivered` of them
                  \* with a delivered notification
    drift         \* history: None, or the text `from` that monitor.py held for
                  \* the url when it last recorded a first baseline or sent
                  \* a notification for it, overwritten `steps` times since
                  \* without a notification; `at` is last_delivered then

vars == <<script, files, pc, run, now, started, exit, NTFY_TOPIC_URL, idx, changed_any,
          apt_state, text_state, hashes, texts, tfc_income_state, state,
          loc, sent, consec, last_delivered, skipped, drift, unsaved>>

\* ------------------------------------------------------------ Python values
None == [none |-> TRUE]

\* A JSON object (dict keyed by URL) is a function on a set of URL strings.
EmptyDoc == [u \in {} |-> None]
Get(doc, url, default) == IF url \in DOMAIN doc THEN doc[url] ELSE default
Put(doc, url, v) == [u \in (DOMAIN doc) \cup {url} |-> IF u = url THEN v ELSE doc[u]]
Del(doc, url) == [u \in (DOMAIN doc) \ {url} |-> doc[u]]

RECURSIVE sorted_from(_, _)
\* The ascending list of the elements of S that are >= k (identifiers are
\* the numbers 0..MaxUnits).
sorted_from(S, k) ==
    IF k > MaxUnits THEN <<>>
    ELSE (IF k \in S THEN <<k>> ELSE <<>>) \o sorted_from(S, k + 1)
\* sorted(set)
sorted(S) == sorted_from(S, 0)
\* set(list)
set(l) == {l[i] : i \in 1..Len(l)}
\* list[:n]
Take(l, n) == SubSeq(l, 1, IF Len(l) < n THEN Len(l) ELSE n)

\* ------------------------------------------------------------- state files
\* A file is absent, holds a complete JSON document, or holds the prefix a
\* writer left behind (opened with mode "w", which truncates, and not yet or
\* never completely written).
AbsentFile == [st |-> "absent", doc |-> EmptyDoc]
FullFile(doc) == [st |-> "ok", doc |-> doc]
PartialFile == [st |-> "partial", doc |-> EmptyDoc]

\* open(..., "w") followed by json.dump, run to completion: the file holds
\* the new document.
write_file(fs, fname, data) == [fs EXCEPT ![fname] = FullFile(data)]

\* monitor_dynamic.load_json: {} when the file is missing or does not parse.
load_json(fs, fname) == IF fs[fname].st = "ok" THEN fs[fname].doc ELSE EmptyDoc
\* monitor_dynamic.save_json, run to completion.
save_json(fs, fname, data) == write_file(fs, fname, data)

\* open(fname, "w") has truncated the file and json.dump has not finished
\* when the process is killed: the file keeps an incomplete document.
save_interrupted(fs, fname) == [fs EXCEPT ![fname] = PartialFile]

RECURSIVE save_all(_, _, _)
\* The save calls for the <<fname, data>> pairs of `writes` in order,
\* the process being killed inside call number `killed_in` (0: never); the
\* calls after it are not made.
save_all(fs, writes, killed_in) ==
    IF writes = <<>> THEN fs
    ELSE IF killed_in = 1 THEN save_interrupted(fs, Head(writes)[1])
    ELSE save_all(write_file(fs, Head(writes)[1], Head(writes)[2]), Tail(writes),
                  IF killed_in = 0 THEN 0 ELSE killed_in - 1)

\* ------------------------------------------------- monitor_dynamic.py: text
\* A rendered, whitespace-normalised page text is described by what the
\* extractors read from it: the listing phrases it holds (phrase k is denoted
\* by the number k), whether these are written as street addresses
\* ("<k> Main Street", which the address pattern of every extractor matches)
\* or as "Unit <k>" (which only the Unit pattern of the generic extractor
\* matches), whether the text carries the "SRO ... available" notice, and
\* whether it holds generic rent/apartment/unit vocabulary.
DynText(units, addressed, sro, vocab) ==
    [units |-> units, addressed |-> addressed, sro |-> sro, vocab |-> vocab]

\* The identifier 0 denotes "SRO Units Available"; k >= 1 denotes the
\* identifier built from listing phrase k ("Unit <k>", the shorter of the two
\* forms; "<k> Main Street" is 7 characters longer).
SRO_ID == 0
IdLen(a) == IF a = SRO_ID THEN 19 ELSE IF a < 10 THEN 6 ELSE 7
IdHasDigit(a) == a # SRO_ID
\* re.match(r'^(?:The\s+)?[A-Z][a-z]+', apt_id): "SRO..." fails at "R", "Unit" matches.
IdIsBuildingName(a) == a # SRO_ID
\* none of the modelled identifiers contains a ui_text phrase
IdHasUiText(a) == FALSE

is_valid_apartment_id_short(a) ==
    /\ ~(IdLen(a) < 8 \/ IdLen(a) > 150)
    /\ ~IdHasUiText(a)
    /\ (IdHasDigit(a) \/ IdIsBuildingName(a))

is_valid_apartment_id(a) ==
    /\ ~(IdLen(a) < 5 \/ IdLen(a) > 150)
    /\ ~IdHasUiText(a)
    /\ (IdHasDigit(a) \/ IdIsBuildingName(a))

\* extract_ids_generic: the Unit/address matches, or nothing above the cap.
extract_ids_generic(text) ==
    IF Cardinality(text.units) > GENERIC_CAP THEN {} ELSE text.units

\* extract_ids_cgm: the SRO notice and every address match.
extract_ids_cgm(text) ==
    (IF text.sro /\ text.vocab THEN {SRO_ID} ELSE {})
    \cup (IF text.addressed THEN text.units ELSE {})

\* extract_apartment_ids: route on the domain, generic fallback last.
extract_apartment_ids(text, url) ==
    IF url = CGM_URL THEN extract_ids_cgm(text) ELSE extract_ids_generic(text)

\* The pages a fetch of each URL can return.
UnitSets == {{}, {1}, {1, 2}, {2, 3}, 1..5, 1..(MASSIVE_CHANGE + 3), 1..MaxUnits}
DynPages(url) ==
    IF url = CGM_URL
    THEN {DynText({}, TRUE, TRUE, TRUE), DynText({1}, TRUE, FALSE, TRUE),
          DynText({1}, TRUE, TRUE, TRUE), DynText({1}, FALSE, FALSE, TRUE)}
    ELSE {DynText(S, FALSE, FALSE, TRUE) : S \in UnitSets}
         \cup {DynText({}, FALSE, FALSE, FALSE)}

\* ------------------------------------------ monitor_dynamic.py: fetch layer
\* A fetch loop that tries once more than max_retries.
fetch_attempts_extra(attempt, okAt) ==
    IF okAt <= max_retries + 1 THEN [ok |-> TRUE, attempts |-> okAt]
    ELSE [ok |-> FALSE, attempts |-> max_retries + 1]

RECURSIVE fetch_attempts(_, _)
\* The for loop of fetch_rendered_html from `attempt` on, when the page first
\* renders on attempt okAt (okAt > max_retries: never): the number of attempts
\* made and whether html was returned.
fetch_attempts(attempt, okAt) ==
    IF attempt = okAt THEN [ok |-> TRUE, attempts |-> attempt]
    ELSE IF attempt < max_retries THEN fetch_attempts(attempt + 1, okAt)
    ELSE [ok |-> FALSE, attempts |-> attempt]

\* set_cooldown(url, seconds)
set_cooldown(fs, url, seconds, t) ==
    save_json(fs, COOLDOWN_FILE, Put(load_json(fs, COOLDOWN_FILE), url, t + seconds))

\* A fetch that does not look at the cooldown.
fetch_rendered_text_always(fs, url, t, okAt, page) ==
    IF okAt <= max_retries THEN [text |-> page, attempts |-> okAt, files |-> fs]
    ELSE [text |-> None, attempts |-> max_retries,
          files |-> save_json(fs, COOLDOWN_FILE,
                              Put(load_json(fs, COOLDOWN_FILE), url, t + FETCH_COOLDOWN))]

\* fetch_rendered_html / fetch_rendered_text: the text or None, the number of
\* attempts made, and the files after it.
fetch_rendered_text(fs, url, t, okAt, page) ==
    IF t < Get(load_json(fs, COOLDOWN_FILE), url, 0)
    THEN [text |-> None, attempts |-> 0, files |-> fs]
    ELSE LET r == fetch_attempts(1, okAt) IN
         IF r.ok THEN [text |-> page, attempts |-> r.attempts, files |-> fs]
         ELSE [text |-> None, attempts |-> r.attempts,
               files |-> set_cooldown(fs, url, FETCH_COOLDOWN, t)]

\* -------------------------------------- monitor_dynamic.py: failure counter
track_failure_twice(fs, url) ==
    LET failures == load_json(fs, FAILURE_FILE) IN
    save_json(fs, FAILURE_FILE, Put(failures, url, Get(failures, url, 0) + 2))

track_failure(fs, url) ==
    LET failures == load_json(fs, FAILURE_FILE) IN
    save_json(fs, FAILURE_FILE, Put(failures, url, Get(failures, url, 0) + 1))

reset_failure_count(fs, url) ==
    LET failures == load_json(fs, FAILURE_FILE) IN
    IF url \in DOMAIN failures
    THEN save_json(fs, FAILURE_FILE, Del(failures, url))
    ELSE fs

\* ------------------------------------------- monitor_dynamic.py: diff, alert
\* A diff that never sees a removal.
removed_none(new_apartments, old_apartments) == {}
added_swapped(new_apartments, old_apartments) == old_apartments \ new_apartments
added_of(new_apartments, old_apartments) == new_apartments \ old_apartments
removed_of(new_apartments, old_apartments) == old_apartments \ new_apartments

\* "if not old_apartments": no stored identifiers, the INIT branch.
is_first_run_never(old_apartments) == FALSE
\* A test that takes the INIT branch for the sources that have identifiers.
is_first_run_nonempty(old_apartments) == old_apartments # {}
is_first_run(old_apartments) == old_apartments = {}

\* "if not added and not removed": the NOCHANGE branch.
is_unchanged_never(added, removed) == FALSE
is_unchanged(added, removed) == added = {} /\ removed = {}

\* A test that looks at the added identifiers only.
is_massive_change_added(added, removed) == Cardinality(added) > MASSIVE_CHANGE
\* "Skip massive changes (likely extractor instability)"
is_massive_change(added, removed) ==
    Cardinality(added) > MASSIVE_CHANGE \/ Cardinality(removed) > MASSIVE_CHANGE

\* format_apartment_changes: the message, by its parts; `lines` is the number
\* of lines joined (0: the empty string).
format_apartment_changes(added, removed) ==
    LET listed == Take(sorted(added), MAX_LISTED)
        more == IF Cardinality(added) > MAX_LISTED
                THEN Cardinality(added) - MAX_LISTED ELSE 0
        rem == IF Cardinality(removed) > MIN_REMOVED THEN Cardinality(removed) ELSE 0
    IN [listed |-> listed, more |-> more, removed |-> rem,
        lines |-> (IF added # {} THEN 1 + Len(listed) ELSE 0)
                  + (IF more > 0 THEN 1 ELSE 0) + (IF rem > 0 THEN 2 ELSE 0)]

\* A policy that raises removals to high priority.
change_priority_removed_high(added, removed, summary) ==
    IF summary.lines > 0 /\ (added # {} \/ Cardinality(removed) > MIN_REMOVED)
    THEN "4" ELSE "none"

\* The priority argument of the send_ntfy_alert call of the CHANGE branch,
\* "none" when neither call is made.
change_priority_low(added, removed, summary) ==
    IF added # {} /\ summary.lines > 0 THEN "2"
    ELSE IF Cardinality(removed) > MIN_REMOVED /\ summary.lines > 0 THEN "2"
    ELSE "none"

change_priority(added, removed, summary) ==
    IF added # {} /\ summary.lines > 0 THEN "4"
    ELSE IF Cardinality(removed) > MIN_REMOVED /\ summary.lines > 0 THEN "2"
    ELSE "none"

\* monitor_dynamic.send_ntfy_alert: what becomes of one call. `net` is the
\* transport's answer ("2xx", "5xx", "exc"); nothing is raised to the caller.
dyn_send_ntfy_alert(url, summary, priority, topic, net) ==
    IF summary.lines = 0 THEN <<>>
    ELSE IF topic = "" THEN <<[url |-> url, priority |-> priority, result |-> "unconfigured"]>>
    ELSE <<[url |-> url, priority |-> priority,
            result |-> IF net = "2xx" THEN "delivered" ELSE "failed"]>>


DynVars == <<apt_state, text_state>>
StaticVars == <<hashes, texts, tfc_income_state>>
History == <<consec, last_delivered, skipped, drift, unsaved>>

\* The documents each script writes after its loop, in the order written.
DynWrites == <<<<APT_FILE, apt_state>>, <<DYN_TEXT_FILE, text_state>>>>
StaticWrites == <<<<HASH_FILE, hashes>>, <<TEXT_FILE, texts>>,
                  <<TFC_INCOME_FILE, tfc_income_state>>>>
WfWrites == <<<<HASH_FILE, state>>>>
EndWrites ==
    IF script = "dynamic" THEN DynWrites
    ELSE IF script = "static" THEN StaticWrites ELSE WfWrites
EndUrls ==
    IF script = "dynamic" THEN DYNAMIC_URLS
    ELSE IF script = "static" THEN URLS ELSE WORKFLOW_URLS

\* The delivery times after the calls `calls` were made at time t.
Delivered(calls, t) ==
    [u \in DOMAIN last_delivered |->
        IF \E k \in 1..Len(calls) : calls[k].url = u /\ calls[k].result = "delivered"
        THEN t ELSE last_delivered[u]]

\* ------------------------------------------ monitor_dynamic.py: the run loop
\* Loop-body locals before the first iteration of a run.
NoLoc ==
    [url |-> "", text |-> None, attempts |-> 0, new_apartments |-> {},
     old_apartments |-> {}, added |-> {}, removed |-> {}, branch |-> "START"]

\* A load that takes the stored lists as they are.
dyn_load_apt_state_raw(fs) == load_json(fs, APT_FILE)

\* run_dynamic_once, lines 846-858: load both documents, then de-duplicate and
\* validate every stored list.
dyn_load_apt_state(fs) ==
    LET apt_state_raw == load_json(fs, APT_FILE) IN
    [url \in DOMAIN apt_state_raw |->
        sorted({a \in set(apt_state_raw[url]) : is_valid_apartment_id(a)})]

\* Lines 877-910 for `url`: the branch taken once the new and the stored
\* identifier sets are known, and what it stores and sends.
DynDecide(url, fs, f, new_apartments, old_apartments, added, removed, net) ==
    LET summary == format_apartment_changes(added, removed)
        priority == change_priority(added, removed, summary)
        seen == [NoLoc EXCEPT !.url = url, !.text = f.text, !.attempts = f.attempts,
                              !.new_apartments = new_apartments,
                              !.old_apartments = old_apartments]
        stored == [files |-> fs,
                   apt_state |-> Put(apt_state, url, sorted(new_apartments)),
                   text_state |-> Put(text_state, url, f.text),
                   changed_any |-> TRUE, sent |-> <<>>, loc |-> seen]
        kept == [files |-> fs, apt_state |-> apt_state, text_state |-> text_state,
                 changed_any |-> changed_any, sent |-> <<>>, loc |-> seen]
    IN
    IF is_first_run(old_apartments)
    THEN [stored EXCEPT !.loc.branch = "INIT"]
    ELSE IF is_unchanged(added, removed)
    THEN [kept EXCEPT !.loc.added = added, !.loc.removed = removed,
                      !.loc.branch = "NOCHANGE"]
    ELSE IF is_massive_change(added, removed)
    THEN [kept EXCEPT !.loc.added = added, !.loc.removed = removed,
                      !.loc.branch = "SKIP"]
    ELSE [stored EXCEPT !.loc.added = added, !.loc.removed = removed,
                        !.loc.branch = "CHANGE",
                        !.sent = IF priority = "none" THEN <<>>
                                 ELSE dyn_send_ntfy_alert(url, summary, priority,
                                                          NTFY_TOPIC_URL, net)]

\* Lines 863-865: the fetch returned None.
DynFailed(url, f) ==
    [files |-> track_failure(f.files, url),
     apt_state |-> apt_state, text_state |-> text_state,
     changed_any |-> changed_any, sent |-> <<>>,
     loc |-> [NoLoc EXCEPT !.url = url, !.attempts = f.attempts, !.branch = "FAIL"]]

\* The iteration leaves the values of `result` behind.
DynLeaves(url, result) ==
    \E r \in {result} :
        /\ files' = r.files
        /\ apt_state' = r.apt_state
        /\ text_state' = r.text_state
        /\ changed_any' = r.changed_any
        /\ loc' = r.loc
        /\ sent' = r.sent
        /\ consec' = [consec EXCEPT ![url] = IF r.loc.branch = "FAIL" THEN @ + 1 ELSE 0]
        /\ last_delivered' = Delivered(r.sent, now)
        /\ skipped' = [skipped EXCEPT ![url] =
                IF r.loc.branch = "FAIL" THEN @
                ELSE IF r.loc.branch # "SKIP" THEN None
                ELSE [ids |-> r.loc.new_apartments, old |-> r.loc.old_apartments,
                      times |-> IF @ # None /\ @.ids = r.loc.new_apartments
                                THEN @.times + 1 ELSE 1]]
        /\ drift' = drift
        /\ unsaved' = unsaved

\* One iteration of the for loop of run_dynamic_once for `url`: the fetch
\* answers with `page` on attempt okAt, the notification transport with `net`.
DynBody(url, okAt, page, net) ==
    \E f \in {fetch_rendered_text(files, url, now, okAt, page)} :
        IF f.text = None
        THEN DynLeaves(url, DynFailed(url, f))
        ELSE \E new_apartments \in
                    {{a \in extract_apartment_ids(f.text, url) : is_valid_apartment_id(a)}},
                old_apartments \in {set(Get(apt_state, url, <<>>))} :
             \E added \in {added_of(new_apartments, old_apartments)},
                removed \in {removed_of(new_apartments, old_apartments)} :
                DynLeaves(url, DynDecide(url, reset_failure_count(f.files, url), f,
                                         new_apartments, old_apartments,
                                         added, removed, net))

Nets == {"2xx", "5xx", "exc"}
Topics == {"", "https://ntfy.sh/topic"}
Scripts == {"dynamic", "static", "workflow"}

\* A scheduled start of the script: a new process, dt seconds after the
\* previous start.
DynStart ==
    /\ script = "dynamic" /\ pc = "idle" /\ run < MaxRuns
    /\ \E dt \in Ticks : now' = now + dt
    /\ run' = run + 1
    /\ pc' = "loop"
    /\ idx' = 1
    /\ exit' = "none"
    /\ changed_any' = FALSE
    /\ text_state' = load_json(files, DYN_TEXT_FILE)
    /\ apt_state' = dyn_load_apt_state(files)
    /\ loc' = NoLoc
    /\ sent' = <<>>
    /\ started' = now'
    /\ UNCHANGED <<script, files, NTFY_TOPIC_URL, History, StaticVars, state>>

DynIterate ==
    /\ script = "dynamic" /\ pc = "loop" /\ idx <= Len(DYNAMIC_URLS)
    /\ \E okAt \in 1..(max_retries + 1), page \in DynPages(DYNAMIC_URLS[idx]), net \in Nets :
        DynBody(DYNAMIC_URLS[idx], okAt, page, net)
    /\ idx' = idx + 1
    /\ UNCHANGED <<script, started, pc, run, now, exit, NTFY_TOPIC_URL, StaticVars, state>>

\* Lines 912-917: after the loop, save both documents if anything changed.
DynFinish ==
    /\ script = "dynamic" /\ pc = "loop" /\ idx > Len(DYNAMIC_URLS)
    /\ files' = IF changed_any THEN save_all(files, DynWrites, 0) ELSE files
    /\ pc' = "idle"
    /\ exit' = "ok"
    /\ apt_state' = EmptyDoc
    /\ text_state' = EmptyDoc
    /\ changed_any' = FALSE
    /\ loc' = NoLoc
    /\ sent' = <<>>
    /\ UNCHANGED <<script, started, run, now, NTFY_TOPIC_URL, idx, History, StaticVars, state>>


\* ----------------------------------------------------------- monitor.py: text
\* A fetched, filtered and whitespace-normalised page text is a sequence of
\* phrases joined by single blanks, [blocks |-> <<b1, ..., bn>>]; phrase b is
\* BlockLen(b) characters long. Every phrase is written with characters of
\* its own, each used once in it, so that two texts have in common exactly
\* their common phrases and the blanks.
\*   1, 2: listing sentences     3, 5: short tokens ("3BR", "studio")
\*   4: an income line ("Household Income $50,000")
\*   11 and up: section headings of 80 characters
BlockLen(b) ==
    CASE b = 1 -> 30 [] b = 2 -> 24 [] b = 3 -> 3 [] b = 4 -> 24 [] b = 5 -> 6
      [] OTHER -> 80
BlockHasIncomeKey(b) == b = 4
StaticText(blocks) == [blocks |-> blocks]

hash_text_const(text) == [sha256 |-> StaticText(<<>>)]
\* hashlib.sha256(text).hexdigest(): a digest that tells the modelled texts apart.
hash_text(text) == [sha256 |-> text]

\* The string of a text, as the sequence difflib compares: its phrases and
\* the blank (SP) between two of them. A phrase stands for the run of its
\* characters, which difflib matches all or none.
SP == 0
TokLen(t) == IF t = SP THEN 1 ELSE BlockLen(t)
Tokens(text) ==
    IF text.blocks = <<>> THEN <<>>
    ELSE [k \in 1..(2 * Len(text.blocks) - 1) |->
            IF k % 2 = 1 THEN text.blocks[(k + 1) \div 2] ELSE SP]

RECURSIVE CharLen(_, _, _)
\* len() of the characters of a[lo..hi]
CharLen(a, lo, hi) == IF lo > hi THEN 0 ELSE TokLen(a[lo]) + CharLen(a, lo + 1, hi)
\* The index (0-based) of the first character of a[k] in the string.
CharOff(a, k) == CharLen(a, 1, k - 1)
\* The character at index p of the string is a blank.
IsBlankAt(a, p) == \E k \in 1..Len(a) : a[k] = SP /\ CharOff(a, k) = p

\* len(a[lo..hi].strip())
SegLen(a, lo, hi) ==
    LET l == IF lo <= hi /\ a[lo] = SP THEN lo + 1 ELSE lo
        h == IF l <= hi /\ a[hi] = SP THEN hi - 1 ELSE hi
    IN CharLen(a, l, h)

\* difflib.SequenceMatcher(None, a, b), autojunk: when b has 200 characters or
\* more, the characters that occur more than len(b) // 100 + 1 times in it
\* are "popular"; no match is searched from them.
bpopular(b) ==
    LET n == CharLen(b, 1, Len(b)) IN
    {t \in {b[k] : k \in 1..Len(b)} :
        n >= 200 /\ Cardinality({k \in 1..Len(b) : b[k] = t}) > n \div 100 + 1}

RECURSIVE common_run(_, _, _, _, _, _, _)
\* The length of the common run of a and b that starts at a[i], b[j] and
\* holds no popular element (the j2len chain of find_longest_match).
common_run(a, i, ahi, b, j, bhi, popular) ==
    IF i <= ahi /\ j <= bhi /\ a[i] = b[j] /\ b[j] \notin popular
    THEN 1 + common_run(a, i + 1, ahi, b, j + 1, bhi, popular)
    ELSE 0

RECURSIVE equal_back(_, _, _, _, _, _)
\* The number of equal elements just before a[i], b[j], from alo, blo on.
equal_back(a, alo, i, b, blo, j) ==
    IF i > alo /\ j > blo /\ a[i - 1] = b[j - 1]
    THEN 1 + equal_back(a, alo, i - 1, b, blo, j - 1) ELSE 0

RECURSIVE equal_ahead(_, _, _, _, _, _)
\* The number of equal elements from a[i], b[j] on, up to ahi, bhi.
equal_ahead(a, i, ahi, b, j, bhi) ==
    IF i <= ahi /\ j <= bhi /\ a[i] = b[j]
    THEN 1 + equal_ahead(a, i + 1, ahi, b, j + 1, bhi) ELSE 0

\* difflib.SequenceMatcher.find_longest_match on a[alo..ahi], b[blo..bhi]:
\* the common run without popular elements that has the most characters, the
\* earliest in a and then in b among these, extended on both sides over equal
\* elements (there is no junk); <<alo, blo, 0>> extended when there is none.
find_longest_match(a, alo, ahi, b, blo, bhi, popular) ==
    LET M == {<<p[1], p[2], common_run(a, p[1], ahi, b, p[2], bhi, popular)>> :
                p \in {q \in (alo..ahi) \X (blo..bhi) :
                          a[q[1]] = b[q[2]] /\ b[q[2]] \notin popular}}
        size(m) == CharLen(a, m[1], m[1] + m[3] - 1)
        best(m) == \A n \in M :
                \/ size(n) < size(m)
                \/ size(n) = size(m) /\ n[1] > m[1]
                \/ size(n) = size(m) /\ n[1] = m[1] /\ n[2] >= m[2]
        core == IF M = {} THEN <<alo, blo, 0>> ELSE CHOOSE m \in M : best(m)
        back == equal_back(a, alo, core[1], b, blo, core[2])
        ahead == equal_ahead(a, core[1] + core[3], ahi, b, core[2] + core[3], bhi)
    IN <<core[1] - back, core[2] - back, back + core[3] + ahead>>

RECURSIVE matching_blocks(_, _, _, _, _, _, _)
\* SequenceMatcher.get_matching_blocks, without the closing sentinel.
matching_blocks(a, alo, ahi, b, blo, bhi, popular) ==
    LET m == find_longest_match(a, alo, ahi, b, blo, bhi, popular) IN
    IF m[3] = 0 THEN <<>>
    ELSE matching_blocks(a, alo, m[1] - 1, b, blo, m[2] - 1, popular)
         \o <<m>>
         \o matching_blocks(a, m[1] + m[3], ahi, b, m[2] + m[3], bhi, popular)

RECURSIVE opcodes_from(_, _, _, _)
\* SequenceMatcher.get_opcodes, the non-equal opcodes only: i and j are the
\* first unconsumed positions of a and b, blocks the matching blocks left.
\* An opcode <<tag, i1, i2, j1, j2>> covers a[i1..i2-1] and b[j1..j2-1].
opcodes_from(i, j, blocks, sentinel) ==
    LET m == IF blocks = <<>> THEN sentinel ELSE Head(blocks)
        tag == IF i < m[1] /\ j < m[2] THEN "replace"
               ELSE IF i < m[1] THEN "delete"
               ELSE IF j < m[2] THEN "insert" ELSE ""
        op == IF tag = "" THEN <<>> ELSE <<<<tag, i, m[1], j, m[2]>>>>
    IN IF blocks = <<>> THEN op
       ELSE op \o opcodes_from(m[1] + m[3], m[2] + m[3], Tail(blocks), sentinel)

get_opcodes(a, b) ==
    opcodes_from(1, 1, matching_blocks(a, 1, Len(a), b, 1, Len(b), bpopular(b)),
                 <<Len(a) + 1, Len(b) + 1, 0>>)

KeepIf(ops, Test(_)) == SelectSeq(ops, Test)

\* summarize_diff(max_snippets = 5, context_chars = 120, max_chars = 1200)
context_chars == 120
max_chars == 1200
\* old_seg[:100]
REMOVED_CHARS == 100
\* len("\n\n[...truncated]")
MARKER_CHARS == 16

\* A threshold that every non-empty segment passes.
is_significant_any(seg_len) == seg_len > 0
\* "new_seg and len(new_seg) >= 10", on the length of the stripped segment.
is_significant(seg_len) == seg_len > 0 /\ seg_len >= MIN_SEGMENT

\* The snippet appended for an insert or replace opcode: "+ " and the new
\* text from context_chars before the segment to context_chars after it,
\* stripped. lo..hi is the segment, chars the length of the snippet.
addition(b, op) ==
    LET start == IF CharOff(b, op[4]) - context_chars < 0 THEN 0
                 ELSE CharOff(b, op[4]) - context_chars
        stop == IF CharLen(b, 1, Len(b)) < CharOff(b, op[5]) + context_chars
                THEN CharLen(b, 1, Len(b))
                ELSE CharOff(b, op[5]) + context_chars
    IN [sign |-> "+", lo |-> op[4], hi |-> op[5] - 1,
        chars |-> 2 + (stop - start) - (IF IsBlankAt(b, start) THEN 1 ELSE 0)
                    - (IF IsBlankAt(b, stop - 1) THEN 1 ELSE 0)]

\* The snippet appended for a delete or replace opcode: "- " and the first
\* 100 characters of the stripped old segment.
removal(a, op) ==
    LET n == SegLen(a, op[2], op[3] - 1) IN
    [sign |-> "-", lo |-> op[2], hi |-> op[3] - 1,
     chars |-> 2 + (IF n < REMOVED_CHARS THEN n ELSE REMOVED_CHARS)]

\* The lists `additions` and `removals` after the for loop over the opcodes.
additions_of(b, ops) ==
    LET kept == KeepIf(ops, LAMBDA op : /\ op[1] \in {"insert", "replace"}
                                        /\ is_significant(SegLen(b, op[4], op[5] - 1)))
    IN [k \in 1..Len(kept) |-> addition(b, kept[k])]
removals_of(a, ops) ==
    LET kept == KeepIf(ops, LAMBDA op : /\ op[1] \in {"delete", "replace"}
                                        /\ is_significant(SegLen(a, op[2], op[3] - 1)))
    IN [k \in 1..Len(kept) |-> removal(a, kept[k])]

RECURSIVE joined_chars(_)
\* len("\n".join(snippets))
joined_chars(snippets) ==
    IF snippets = <<>> THEN 0
    ELSE Head(snippets).chars + (IF Len(snippets) > 1 THEN 1 ELSE 0)
         + joined_chars(Tail(snippets))

\* Lines 316-326: the snippets kept (additions first, then removals in the
\* slots left), None without any; the summary is cut at max_chars and the
\* marker appended. chars is the length of the summary returned.
summary_of(additions, removals) ==
    LET first == Take(additions, max_snippets)
        snippets == first \o (IF Len(first) < max_snippets
                              THEN Take(removals, max_snippets - Len(first))
                              ELSE <<>>)
    IN IF snippets = <<>> THEN None
       ELSE [snippets |-> snippets,
             chars |-> IF joined_chars(snippets) > max_chars
                       THEN max_chars + MARKER_CHARS ELSE joined_chars(snippets),
             truncated |-> joined_chars(snippets) > max_chars]

diff_summary_of(a, b, ops) == summary_of(additions_of(b, ops), removals_of(a, ops))

\* summarize_diff: None, or the summary by its snippets and its length.
summarize_diff(old_text, new_text) ==
    diff_summary_of(Tokens(old_text), Tokens(new_text),
                    get_opcodes(Tokens(old_text), Tokens(new_text)))

\* -------------------------------------- monitor.py: the normalization pipeline
\* A raw page text (soup.get_text with "\n" separators) is a sequence of
\* lines, a line a sequence of phrases separated by blanks. The phrases:
\* the heading the window of filter_tfc starts at
AFF_WORD == "Affordable Re-Rentals"
\* a phrase with an income key of filter_tfc (and a listing keyword)
INC_WORD == "Household Income"
\* a phrase with listing keywords only, longer than the 100-character floor
APT_WORD == "A spacious two bedroom apartment is available for rent on the third floor of the building at 10 Main Street"
\* a phrase that no pattern matches
NAV_WORD == "Welcome"
\* a phrase at which an IGNORE_PATTERNS regex matches
MENU_WORD == "Menu"
Words == {AFF_WORD, INC_WORD, APT_WORD, NAV_WORD, MENU_WORD}

\* len(phrase)
WordLen(w) ==
    CASE w = AFF_WORD -> 21 [] w = INC_WORD -> 16 [] w = APT_WORD -> 107
      [] w = NAV_WORD -> 7 [] OTHER -> 4

RECURSIVE LineLen(_)
\* len(line): the phrases and one blank between two of them.
LineLen(line) ==
    IF line = <<>> THEN 0
    ELSE WordLen(Head(line)) + (IF Len(line) > 1 THEN 1 ELSE 0) + LineLen(Tail(line))

RECURSIVE TextLen(_)
\* len("\n".join(lines))
TextLen(lines) ==
    IF lines = <<>> THEN 0
    ELSE LineLen(Head(lines)) + (IF Len(lines) > 1 THEN 1 ELSE 0) + TextLen(Tail(lines))

\* [line.strip() for line in raw_text.splitlines() if line.strip()]
strip_lines(text) == SelectSeq(text, LAMBDA line : line # <<>>)

\* text[text.find(marker):] when the marker occurs, else text.
text_from(text, marker) ==
    LET P == {p \in (1..Len(text)) \X (1..(MaxWords + MaxLines * MaxWords)) :
                p[2] <= Len(text[p[1]]) /\ text[p[1]][p[2]] = marker}
        at == CHOOSE p \in P : \A q \in P :
                  p[1] < q[1] \/ (p[1] = q[1] /\ p[2] <= q[2])
    IN IF P = {} THEN text
       ELSE <<SubSeq(text[at[1]], at[2], Len(text[at[1]]))>>
            \o SubSeq(text, at[1] + 1, Len(text))

\* filter_tfc: the text from "affordable re-rentals" on, then the lines
\* with an income key or a unit summary, or all of them when there is none.
filter_tfc(text) ==
    LET cut == text_from(text, AFF_WORD)
        lines == strip_lines(cut)
        keep == SelectSeq(lines, LAMBDA line :
                    \E k \in 1..Len(line) : line[k] = INC_WORD)
    IN IF keep # <<>> THEN keep ELSE cut

\* any(rx.match(line) for rx in IGNORE_REGEXES): anchored at the line start.
LineIgnored(line) == Head(line) = MENU_WORD
\* any(rx.search(line) for rx in LISTING_REGEXES)
HasListingContent(line) == \E k \in 1..Len(line) : line[k] \in {INC_WORD, APT_WORD}

\* extract_relevant_content: len(line) < 3, the context window of 2 lines,
\* and the floor of 100 characters under which the text is returned as it is.
MIN_LINE == 3
CONTEXT_LINES == 2
MIN_RELEVANT == 100

RECURSIVE relevant_lines(_, _, _)
\* The for loop of extract_relevant_content over `lines`.
relevant_lines(lines, relevant, context_window) ==
    IF lines = <<>> THEN relevant
    ELSE LET line == Head(lines) IN
         IF line = <<>> \/ LineLen(line) < MIN_LINE THEN
            relevant_lines(Tail(lines), relevant, context_window)
         ELSE IF LineIgnored(line) THEN
            relevant_lines(Tail(lines), relevant, context_window)
         ELSE IF HasListingContent(line) THEN
            relevant_lines(Tail(lines), relevant \o context_window \o <<line>>, <<>>)
         ELSE LET w == context_window \o <<line>> IN
            relevant_lines(Tail(lines), relevant,
                           IF Len(w) > CONTEXT_LINES THEN Tail(w) ELSE w)

extract_relevant_content(text) ==
    LET result == relevant_lines(text, <<>>, <<>>) IN
    IF TextLen(result) < MIN_RELEVANT THEN text ELSE result

\* apply_content_filters: of the modelled URLs only TFC_URL is a key of
\* CONTENT_FILTERS.
apply_content_filters(url, text) ==
    extract_relevant_content(IF url = TFC_URL THEN filter_tfc(text) ELSE text)

RECURSIVE flatten(_)
flatten(text) == IF text = <<>> THEN <<>> ELSE Head(text) \o flatten(Tail(text))

\* normalize_whitespace: every whitespace run, line breaks included, becomes
\* one blank; the result is one line (no line for the empty string).
normalize_whitespace(text) == IF flatten(text) = <<>> THEN <<>> ELSE <<flatten(text)>>

\* The text fetch_page_text makes of the raw text of a response (lines 275-285).
page_text(url, raw_text) ==
    normalize_whitespace(apply_content_filters(url, strip_lines(raw_text)))

\* The raw texts given to the pipeline.
RawLines == UNION {[1..n -> Words] : n \in 0..MaxWords}
RawTexts == UNION {[1..n -> RawLines] : n \in 0..MaxLines}

\* extract_tfc_income_options: the text reaches it whitespace-normalised, so
\* splitlines() yields the whole text as its one line; that line is an option
\* when it holds an income keyword or a dollar income.
extract_tfc_income_options(text) ==
    IF \E k \in 1..Len(text.blocks) : BlockHasIncomeKey(text.blocks[k])
    THEN <<text>> ELSE <<>>

\* summarize_tfc_income_changes: None, or the options listed under each heading.
summarize_tfc_income_changes(old_set, new_set) ==
    LET added == new_set \ old_set
        removed == old_set \ new_set
    IN IF added = {} /\ removed = {} THEN None
       ELSE [added |-> added, removed |-> removed]

\* The pages a fetch of each URL of monitor.py can return.
StaticPages(url) ==
    IF url = TFC_URL
    THEN {StaticText(<<1>>), StaticText(<<1, 4>>), StaticText(<<1, 4, 3>>)}
    ELSE {StaticText(<<1>>), StaticText(<<1, 3>>), StaticText(<<1, 2>>),
          StaticText(<<2, 3>>), StaticText(<<1, 3, 5>>)}


\* Lexicographic order of two texts (Python's str comparison on the phrases).
RECURSIVE BlocksLeq(_, _)
BlocksLeq(a, b) ==
    IF a = <<>> THEN TRUE
    ELSE IF b = <<>> THEN FALSE
    ELSE IF Head(a) # Head(b) THEN Head(a) < Head(b)
    ELSE BlocksLeq(Tail(a), Tail(b))
TextLeq(a, b) == BlocksLeq(a.blocks, b.blocks)

RECURSIVE sorted_texts(_)
\* sorted(set of str)
sorted_texts(S) ==
    IF S = {} THEN <<>>
    ELSE LET m == CHOOSE x \in S : \A y \in S : TextLeq(x, y)
         IN <<m>> \o sorted_texts(S \ {m})

\* ------------------------------------------------- monitor.py: notification
\* monitor.send_ntfy_alert / send_tfc_income_alert: the call made and whether
\* the function raises. An unconfigured topic raises ValueError before any
\* request; a non-2xx answer and a transport exception are re-raised.
static_send_swallow(url, summary, priority, topic, net) ==
    IF summary = None THEN [sent |-> <<>>, raised |-> FALSE]
    ELSE [sent |-> <<[url |-> url, priority |-> priority,
                      result |-> IF topic # "" /\ net = "2xx" THEN "delivered"
                                 ELSE "failed"]>>,
          raised |-> FALSE]

\* A notification that is sent whether or not there is a summary.
static_send_unconditional(url, summary, priority, topic, net) ==
    IF topic = ""
    THEN [sent |-> <<[url |-> url, priority |-> priority, result |-> "unconfigured"]>>,
          raised |-> TRUE]
    ELSE IF net = "2xx"
    THEN [sent |-> <<[url |-> url, priority |-> priority, result |-> "delivered"]>>,
          raised |-> FALSE]
    ELSE [sent |-> <<[url |-> url, priority |-> priority, result |-> "failed"]>>,
          raised |-> TRUE]

static_send(url, summary, priority, topic, net) ==
    IF summary = None THEN [sent |-> <<>>, raised |-> FALSE]
    ELSE IF topic = ""
    THEN [sent |-> <<[url |-> url, priority |-> priority, result |-> "unconfigured"]>>,
          raised |-> TRUE]
    ELSE IF net = "2xx"
    THEN [sent |-> <<[url |-> url, priority |-> priority, result |-> "delivered"]>>,
          raised |-> FALSE]
    ELSE [sent |-> <<[url |-> url, priority |-> priority, result |-> "failed"]>>,
          raised |-> TRUE]

\* Whether a failed notification leaves the send function of script s as an
\* exception (which no caller catches): monitor.py re-raises, while
\* monitor_dynamic.py and the workflow script catch, print and return.
send_raises(s, topic, net) ==
    IF s = "static"
    THEN static_send(TFC_URL, [added |-> {}, removed |-> {}], "high", topic, net).raised
    ELSE FALSE

\* monitor.load_json: {} when the file is missing or cannot be read.
static_load_json(fs, path) == IF fs[path].st = "ok" THEN fs[path].doc ELSE EmptyDoc
\* monitor.save_json, run to completion without an I/O error.
static_save_json(fs, path, data) == write_file(fs, path, data)

\* ------------------------------------------------- monitor.py: the run loop
StaticNoLoc ==
    [url |-> "", new_text |-> None, old_set |-> {}, new_set |-> {},
     summary |-> None, branch |-> "START"]

\* Lines 478-503: the TF Cornerstone branch of the loop body.
StaticTfc(url, new_text, net) ==
    LET options == extract_tfc_income_options(new_text)
        new_set == set(options)
        old_list == Get(tfc_income_state, url, <<>>)
        old_set == set(old_list)
        summary == summarize_tfc_income_changes(old_set, new_set)
        alert == static_send(url, summary, "high", NTFY_TOPIC_URL, net)
        seen == [StaticNoLoc EXCEPT !.url = url, !.new_text = new_text,
                                    !.old_set = old_set, !.new_set = new_set]
        base == [raised |-> FALSE, sent |-> <<>>,
                 hashes |-> Put(hashes, url, hash_text(new_text)),
                 texts |-> Put(texts, url, new_text),
                 tfc_income_state |-> tfc_income_state,
                 changed_any |-> changed_any, loc |-> seen]
    IN
    IF old_set = {}
    THEN [base EXCEPT !.tfc_income_state = Put(tfc_income_state, url, sorted_texts(new_set)),
                      !.changed_any = TRUE, !.loc.branch = "INIT"]
    ELSE IF new_set # old_set
    THEN IF alert.raised
         THEN [base EXCEPT !.raised = TRUE, !.sent = alert.sent,
                           !.hashes = hashes, !.texts = texts,
                           !.loc.summary = summary, !.loc.branch = "CHANGE"]
         ELSE [base EXCEPT !.sent = alert.sent,
                           !.tfc_income_state = Put(tfc_income_state, url, sorted_texts(new_set)),
                           !.changed_any = TRUE,
                           !.loc.summary = summary, !.loc.branch = "CHANGE"]
    ELSE [base EXCEPT !.loc.branch = "NOCHANGE"]

\* Lines 505-529: the generic branch of the loop body.
StaticGeneric(url, new_text, net) ==
    LET old_text == Get(texts, url, None)
        old_hash == Get(hashes, url, None)
        new_hash == hash_text(new_text)
        diff_summary == summarize_diff(old_text, new_text)
        alert == static_send(url, diff_summary, "4", NTFY_TOPIC_URL, net)
        seen == [StaticNoLoc EXCEPT !.url = url, !.new_text = new_text]
        kept == [raised |-> FALSE, sent |-> <<>>, hashes |-> hashes, texts |-> texts,
                 tfc_income_state |-> tfc_income_state,
                 changed_any |-> changed_any, loc |-> seen]
        stored == [kept EXCEPT !.hashes = Put(hashes, url, new_hash),
                               !.texts = Put(texts, url, new_text),
                               !.changed_any = TRUE]
    IN
    IF old_text = None \/ old_hash = None
    THEN [stored EXCEPT !.loc.branch = "INIT"]
    ELSE IF new_hash = old_hash
    THEN [kept EXCEPT !.loc.branch = "NOCHANGE"]
    ELSE IF alert.raised
    THEN [kept EXCEPT !.raised = TRUE, !.sent = alert.sent,
                      !.loc.summary = diff_summary, !.loc.branch = "CHANGE"]
    ELSE [stored EXCEPT !.sent = alert.sent,
                        !.loc.summary = diff_summary, !.loc.branch = "CHANGE"]

\* One iteration of the for loop of run_once for `url`: fetch_page_text
\* returns `fetched` (None on a request error).
StaticBody(url, fetched, net) ==
    IF fetched = None
    THEN [raised |-> FALSE, sent |-> <<>>, hashes |-> hashes, texts |-> texts,
          tfc_income_state |-> tfc_income_state, changed_any |-> changed_any,
          loc |-> [StaticNoLoc EXCEPT !.url = url, !.branch = "FAIL"]]
    ELSE IF url = TFC_URL THEN StaticTfc(url, fetched, net)
    ELSE StaticGeneric(url, fetched, net)

StaticStart ==
    /\ script = "static" /\ pc = "idle" /\ run < MaxRuns
    /\ \E dt \in Ticks : now' = now + dt
    /\ run' = run + 1
    /\ pc' = "loop"
    /\ idx' = 1
    /\ exit' = "none"
    /\ changed_any' = FALSE
    /\ hashes' = static_load_json(files, HASH_FILE)
    /\ texts' = static_load_json(files, TEXT_FILE)
    /\ tfc_income_state' = static_load_json(files, TFC_INCOME_FILE)
    /\ loc' = StaticNoLoc
    /\ sent' = <<>>
    /\ started' = now'
    /\ UNCHANGED <<script, files, NTFY_TOPIC_URL, History, DynVars, state>>

\* An iteration that returns normally moves on to the next URL; one whose
\* alert raises ends the process with the exception, before anything is saved.
StaticIterate ==
    /\ script = "static" /\ pc = "loop" /\ idx <= Len(URLS)
    /\ \E fetched \in StaticPages(URLS[idx]) \cup {None}, net \in Nets :
        \E r \in {StaticBody(URLS[idx], fetched, net)} :
           /\ sent' = r.sent
           /\ loc' = r.loc
           /\ last_delivered' = Delivered(r.sent, now)
           /\ drift' = [drift EXCEPT ![URLS[idx]] =
                   IF r.raised \/ r.loc.branch \in {"FAIL", "NOCHANGE"}
                      \/ URLS[idx] = TFC_URL
                   THEN @
                   ELSE IF r.loc.branch = "CHANGE" /\ r.loc.summary = None
                   THEN IF @ = None
                        THEN [from |-> Get(texts, URLS[idx], None), steps |-> 1,
                              at |-> last_delivered[URLS[idx]]]
                        ELSE [@ EXCEPT !.steps = @ + 1]
                   ELSE None]
           /\ unsaved' = [unsaved EXCEPT ![URLS[idx]] =
                   IF r.loc.branch \notin {"INIT", "CHANGE"} THEN None
                   ELSE LET again == @ # None /\ @.loc = r.loc
                            ok == \E k \in 1..Len(r.sent) : r.sent[k].result = "delivered"
                        IN [loc |-> r.loc,
                            times |-> (IF again THEN @.times ELSE 0) + 1,
                            delivered |-> (IF again THEN @.delivered ELSE 0)
                                          + (IF ok THEN 1 ELSE 0)]]
           /\ IF r.raised
              THEN /\ pc' = "idle"
                   /\ exit' = "raised"
                   /\ hashes' = EmptyDoc
                   /\ texts' = EmptyDoc
                   /\ tfc_income_state' = EmptyDoc
                   /\ changed_any' = FALSE
                   /\ idx' = idx
              ELSE /\ pc' = pc
                   /\ exit' = exit
                   /\ hashes' = r.hashes
                   /\ texts' = r.texts
                   /\ tfc_income_state' = r.tfc_income_state
                   /\ changed_any' = r.changed_any
                   /\ idx' = idx + 1
    /\ UNCHANGED <<script, started, files, run, now, NTFY_TOPIC_URL, consec, skipped, DynVars, state>>

\* Lines 531-536: after the loop, save the three documents if anything changed.
StaticFinish ==
    /\ script = "static" /\ pc = "loop" /\ idx > Len(URLS)
    /\ files' = IF changed_any
                THEN static_save_json(
                       static_save_json(
                         static_save_json(files, HASH_FILE, hashes),
                         TEXT_FILE, texts),
                       TFC_INCOME_FILE, tfc_income_state)
                ELSE files
    /\ pc' = "idle"
    /\ exit' = "ok"
    /\ hashes' = EmptyDoc
    /\ texts' = EmptyDoc
    /\ tfc_income_state' = EmptyDoc
    /\ changed_any' = FALSE
    /\ loc' = StaticNoLoc
    /\ sent' = <<>>
    /\ unsaved' = [u \in DOMAIN unsaved |-> None]
    /\ UNCHANGED <<script, started, run, now, NTFY_TOPIC_URL, idx, consec, last_delivered,
                   skipped, drift, DynVars, state>>

\* ------------------------------------------- .github/workflows/monitor.py
\* load_state / save_state
load_state(fs) == IF fs[HASH_FILE].st = "ok" THEN fs[HASH_FILE].doc ELSE EmptyDoc
save_state(fs, st) == write_file(fs, HASH_FILE, st)

\* send_ntfy_alert(url): skipped without a topic, errors logged only.
wf_send_ntfy_alert(url, topic, net) ==
    IF topic = "" THEN <<>>
    ELSE <<[url |-> url, priority |-> "4",
            result |-> IF net = "2xx" THEN "delivered" ELSE "failed"]>>

WfNoLoc == [url |-> "", new_hash |-> None, old_hash |-> None, branch |-> "START"]

\* One iteration of the for loop of the workflow's run_once: get_page_hash
\* returns new_hash (None on a request error).
WfBody(url, new_hash, net) ==
    LET old_hash == Get(state, url, None)
        seen == [WfNoLoc EXCEPT !.url = url, !.new_hash = new_hash, !.old_hash = old_hash]
    IN
    IF new_hash = None
    THEN [state |-> state, changed_any |-> changed_any, sent |-> <<>>,
          loc |-> [seen EXCEPT !.branch = "FAIL"]]
    ELSE IF old_hash = None
    THEN [state |-> Put(state, url, new_hash), changed_any |-> TRUE, sent |-> <<>>,
          loc |-> [seen EXCEPT !.branch = "INIT"]]
    ELSE IF new_hash # old_hash
    THEN [state |-> Put(state, url, new_hash), changed_any |-> TRUE,
          sent |-> wf_send_ntfy_alert(url, NTFY_TOPIC_URL, net),
          loc |-> [seen EXCEPT !.branch = "CHANGE"]]
    ELSE [state |-> state, changed_any |-> changed_any, sent |-> <<>>,
          loc |-> [seen EXCEPT !.branch = "NOCHANGE"]]

\* The page texts a fetch of a workflow URL can return.
WfPages == {StaticText(<<1>>), StaticText(<<1, 3>>), StaticText(<<1, 2>>)}

WfStart ==
    /\ script = "workflow" /\ pc = "idle" /\ run < MaxRuns
    /\ \E dt \in Ticks : now' = now + dt
    /\ run' = run + 1
    /\ pc' = "loop"
    /\ idx' = 1
    /\ exit' = "none"
    /\ changed_any' = FALSE
    /\ state' = load_state(files)
    /\ loc' = WfNoLoc
    /\ sent' = <<>>
    /\ started' = now'
    /\ UNCHANGED <<script, files, NTFY_TOPIC_URL, History, DynVars, StaticVars>>

WfIterate ==
    /\ script = "workflow" /\ pc = "loop" /\ idx <= Len(WORKFLOW_URLS)
    /\ \E new_hash \in {hash_text(t) : t \in WfPages} \cup {None}, net \in Nets :
        \E r \in {WfBody(WORKFLOW_URLS[idx], new_hash, net)} :
           /\ state' = r.state
           /\ changed_any' = r.changed_any
           /\ sent' = r.sent
           /\ loc' = r.loc
           /\ last_delivered' = Delivered(r.sent, now)
    /\ idx' = idx + 1
    /\ UNCHANGED <<script, started, files, pc, run, now, exit, NTFY_TOPIC_URL, consec, skipped,
                   drift, unsaved, DynVars, StaticVars>>

WfFinish ==
    /\ script = "workflow" /\ pc = "loop" /\ idx > Len(WORKFLOW_URLS)
    /\ files' = IF changed_any THEN save_state(files, state) ELSE files
    /\ pc' = "idle"
    /\ exit' = "ok"
    /\ state' = EmptyDoc
    /\ changed_any' = FALSE
    /\ loc' = WfNoLoc
    /\ sent' = <<>>
    /\ UNCHANGED <<script, started, run, now, NTFY_TOPIC_URL, idx, History, DynVars, StaticVars>>

\* ------------------------------------------------------ process kills
\* The process is killed (runner timeout, SIGKILL, power loss) inside one of
\* the save calls that follow the loop.
KilledInSave ==
    /\ pc = "loop" /\ idx > Len(EndUrls) /\ changed_any
    /\ \E k \in 1..Len(EndWrites) : files' = save_all(files, EndWrites, k)
    /\ pc' = "idle"
    /\ exit' = "killed"
    /\ apt_state' = EmptyDoc
    /\ text_state' = EmptyDoc
    /\ hashes' = EmptyDoc
    /\ texts' = EmptyDoc
    /\ tfc_income_state' = EmptyDoc
    /\ state' = EmptyDoc
    /\ changed_any' = FALSE
    /\ loc' = (IF script = "dynamic" THEN NoLoc
               ELSE IF script = "static" THEN StaticNoLoc ELSE WfNoLoc)
    /\ sent' = <<>>
    /\ UNCHANGED <<script, started, run, now, NTFY_TOPIC_URL, idx, History>>

\* The process is killed inside the save_json call of track_failure.
KilledInTrackFailure ==
    /\ script = "dynamic" /\ pc = "loop" /\ idx <= Len(DYNAMIC_URLS)
    /\ \E okAt \in 1..(max_retries + 1), page \in DynPages(DYNAMIC_URLS[idx]) :
        \E f \in {fetch_rendered_text(files, DYNAMIC_URLS[idx], now, okAt, page)} :
            /\ f.text = None
            /\ files' = save_interrupted(f.files, FAILURE_FILE)
    /\ loc' = NoLoc
    /\ consec' = [consec EXCEPT ![DYNAMIC_URLS[idx]] = @ + 1]
    /\ pc' = "idle"
    /\ exit' = "killed"
    /\ apt_state' = EmptyDoc
    /\ text_state' = EmptyDoc
    /\ changed_any' = FALSE
    /\ sent' = <<>>
    /\ UNCHANGED <<script, started, run, now, NTFY_TOPIC_URL, idx, last_delivered, skipped,
                   drift, unsaved, StaticVars, state>>

\* ------------------------------------------------------ write errors
RECURSIVE save_all_failing(_, _, _, _, _)
\* The save calls for the <<fname, data>> pairs of `writes` in order, call
\* number k meeting an OSError: in open(fname, "w") (the file is untouched)
\* or, `truncated`, in json.dump after the file was truncated. `stops`: the
\* error propagates and the calls after it are not made.
save_all_failing(fs, writes, k, truncated, stops) ==
    IF writes = <<>> THEN fs
    ELSE IF k = 1
    THEN LET failed == IF truncated THEN save_interrupted(fs, Head(writes)[1]) ELSE fs
         IN IF stops THEN failed
            ELSE save_all_failing(failed, Tail(writes), 0, truncated, stops)
    ELSE save_all_failing(write_file(fs, Head(writes)[1], Head(writes)[2]),
                          Tail(writes), IF k = 0 THEN 0 ELSE k - 1, truncated, stops)

\* monitor_dynamic.save_json has no handler: an OSError in one of the saves
\* after the loop of run_dynamic_once ends the process with the exception.
DynSaveRaises ==
    /\ script = "dynamic" /\ pc = "loop" /\ idx > Len(DYNAMIC_URLS) /\ changed_any
    /\ \E k \in 1..Len(DynWrites), truncated \in BOOLEAN :
          files' = save_all_failing(files, DynWrites, k, truncated, TRUE)
    /\ pc' = "idle"
    /\ exit' = "oserror"
    /\ apt_state' = EmptyDoc
    /\ text_state' = EmptyDoc
    /\ changed_any' = FALSE
    /\ loc' = NoLoc
    /\ sent' = <<>>
    /\ UNCHANGED <<script, started, run, now, NTFY_TOPIC_URL, idx, History, StaticVars, state>>

\* The save_json call of track_failure meets an OSError inside the loop: the
\* exception leaves run_dynamic_once, the remaining URLs are not visited.
DynTrackFailureRaises ==
    /\ script = "dynamic" /\ pc = "loop" /\ idx <= Len(DYNAMIC_URLS)
    /\ \E okAt \in 1..(max_retries + 1), page \in DynPages(DYNAMIC_URLS[idx]),
          truncated \in BOOLEAN :
        \E f \in {fetch_rendered_text(files, DYNAMIC_URLS[idx], now, okAt, page)} :
            /\ f.text = None
            /\ files' = IF truncated THEN save_interrupted(f.files, FAILURE_FILE)
                        ELSE f.files
    /\ loc' = NoLoc
    /\ consec' = [consec EXCEPT ![DYNAMIC_URLS[idx]] = @ + 1]
    /\ pc' = "idle"
    /\ exit' = "oserror"
    /\ apt_state' = EmptyDoc
    /\ text_state' = EmptyDoc
    /\ changed_any' = FALSE
    /\ sent' = <<>>
    /\ UNCHANGED <<script, started, run, now, NTFY_TOPIC_URL, idx, last_delivered, skipped,
                   drift, unsaved, StaticVars, state>>

\* monitor.save_json catches the error of a failing save and prints it: the
\* other documents are saved and run_once returns normally.
StaticSaveFails ==
    /\ script = "static" /\ pc = "loop" /\ idx > Len(URLS) /\ changed_any
    /\ \E k \in 1..Len(StaticWrites), truncated \in BOOLEAN :
          files' = save_all_failing(files, StaticWrites, k, truncated, FALSE)
    /\ pc' = "idle"
    /\ exit' = "ok"
    /\ hashes' = EmptyDoc
    /\ texts' = EmptyDoc
    /\ tfc_income_state' = EmptyDoc
    /\ changed_any' = FALSE
    /\ loc' = StaticNoLoc
    /\ sent' = <<>>
    /\ unsaved' = [u \in DOMAIN unsaved |-> None]
    /\ UNCHANGED <<script, started, run, now, NTFY_TOPIC_URL, idx, consec, last_delivered,
                   skipped, drift, DynVars, state>>

\* The workflow's save_state catches and prints the error as well.
WfSaveFails ==
    /\ script = "workflow" /\ pc = "loop" /\ idx > Len(WORKFLOW_URLS) /\ changed_any
    /\ \E truncated \in BOOLEAN :
          files' = save_all_failing(files, WfWrites, 1, truncated, FALSE)
    /\ pc' = "idle"
    /\ exit' = "ok"
    /\ state' = EmptyDoc
    /\ changed_any' = FALSE
    /\ loc' = WfNoLoc
    /\ sent' = <<>>
    /\ UNCHANGED <<script, started, run, now, NTFY_TOPIC_URL, idx, History, DynVars, StaticVars>>

AllUrls == {CGM_URL, EVH_URL, IHR_URL, TFC_URL, NYC_URL, AFNY_URL}

Init ==
    /\ script \in Scripts
    /\ files = [f \in FileNames |-> AbsentFile]
    /\ pc = "idle"
    /\ run = 0
    /\ now = 0
    /\ started = 0
    /\ exit = "none"
    /\ NTFY_TOPIC_URL \in Topics
    /\ idx = 1
    /\ changed_any = FALSE
    /\ apt_state = EmptyDoc
    /\ text_state = EmptyDoc
    /\ hashes = EmptyDoc
    /\ texts = EmptyDoc
    /\ tfc_income_state = EmptyDoc
    /\ state = EmptyDoc
    /\ loc = (IF script = "dynamic" THEN NoLoc
              ELSE IF script = "static" THEN StaticNoLoc ELSE WfNoLoc)
    /\ sent = <<>>
    /\ consec = [u \in AllUrls |-> 0]
    /\ last_delivered = [u \in AllUrls |-> 0]
    /\ skipped = [u \in AllUrls |-> None]
    /\ drift = [u \in AllUrls |-> None]
    /\ unsaved = [u \in AllUrls |-> None]

Next ==
    \/ DynStart \/ DynIterate \/ DynFinish
    \/ StaticStart \/ StaticIterate \/ StaticFinish
    \/ WfStart \/ WfIterate \/ WfFinish

Spec == Init /\ [][Next]_vars

\* The runs of Spec, and kills of the process inside a state save.
NextKilled == Next \/ KilledInSave \/ KilledInTrackFailure
SpecKilled == Init /\ [][NextKilled]_vars

\* The runs of Spec, and state saves that meet an I/O error.
NextIOError ==
    Next \/ DynSaveRaises \/ DynTrackFailureRaises \/ StaticSaveFails \/ WfSaveFails
SpecIOError == Init /\ [][NextIOError]_vars

\* Time passes while run_dynamic_once is inside its loop: the sources are
\* rendered in a browser one after another (page.goto with a timeout of
\* 45 s, tried max_retries times), so a later source is fetched later than
\* the run started.
Elapse ==
    /\ script = "dynamic" /\ pc = "loop" /\ idx > 1 /\ idx <= Len(DYNAMIC_URLS)
    /\ \E dt \in Ticks : now + dt <= 2 * MaxRuns * dt /\ now' = now + dt
    /\ UNCHANGED <<script, started, files, pc, run, exit, NTFY_TOPIC_URL, idx,
                   changed_any, DynVars, StaticVars, state, loc, sent, History>>

\* The pages the sources answer with while the clock is followed.
ClockPages(url) == {page \in DynPages(url) : page.units = {1}}
ClockIterate ==
    /\ script = "dynamic" /\ pc = "loop" /\ idx <= Len(DYNAMIC_URLS)
    /\ \E okAt \in 1..(max_retries + 1), page \in ClockPages(DYNAMIC_URLS[idx]),
          net \in Nets :
        DynBody(DYNAMIC_URLS[idx], okAt, page, net)
    /\ idx' = idx + 1
    /\ UNCHANGED <<script, started, pc, run, now, exit, NTFY_TOPIC_URL, StaticVars, state>>

\* The runs of monitor_dynamic.py, with a clock that advances inside a run.
ClockInit == Init /\ script = "dynamic"
NextClock == DynStart \/ ClockIterate \/ Elapse \/ DynFinish
SpecClock == ClockInit /\ [][NextClock]_vars

\* run_dynamic_once started on an "existing state" that it did not write
\* itself (lines 848-853 clean such a state): dynamic_apartments.json holds a
\* list with a duplicate and with an identifier that is_valid_apartment_id
\* rejects.
LegacyAptFile == FullFile([u \in {CGM_URL} |-> <<SRO_ID, 1, 1>>])
LegacyInit ==
    /\ script = "dynamic"
    /\ files = [f \in FileNames |-> IF f = APT_FILE THEN LegacyAptFile ELSE AbsentFile]
    /\ pc = "idle"
    /\ run = 0 /\ now = 0 /\ started = 0 /\ exit = "none" /\ idx = 1
    /\ NTFY_TOPIC_URL \in Topics
    /\ changed_any = FALSE
    /\ apt_state = EmptyDoc /\ text_state = EmptyDoc
    /\ hashes = EmptyDoc /\ texts = EmptyDoc /\ tfc_income_state = EmptyDoc
    /\ state = EmptyDoc
    /\ loc = NoLoc
    /\ sent = <<>>
    /\ consec = [u \in AllUrls |-> 0]
    /\ last_delivered = [u \in AllUrls |-> 0]
    /\ skipped = [u \in AllUrls |-> None]
    /\ drift = [u \in AllUrls |-> None]
    /\ unsaved = [u \in AllUrls |-> None]
NextLegacy == DynStart \/ DynIterate \/ DynFinish
SpecLegacy == LegacyInit /\ [][NextLegacy]_vars

\* fetch_page_text applied to a raw text, and then to its own result.
NormInit ==
    /\ script = "static"
    /\ pc = "fetch_page_text"
    /\ loc \in {[url |-> u, raw_text |-> r, text |-> <<>>, again |-> <<>>] :
                  u \in {IHR_URL, TFC_URL}, r \in RawTexts}
    /\ files = [f \in FileNames |-> AbsentFile]
    /\ run = 0 /\ now = 0 /\ started = 0 /\ exit = "none" /\ idx = 1
    /\ NTFY_TOPIC_URL = ""
    /\ changed_any = FALSE
    /\ apt_state = EmptyDoc /\ text_state = EmptyDoc
    /\ hashes = EmptyDoc /\ texts = EmptyDoc /\ tfc_income_state = EmptyDoc
    /\ state = EmptyDoc
    /\ sent = <<>>
    /\ consec = [u \in AllUrls |-> 0]
    /\ last_delivered = [u \in AllUrls |-> 0]
    /\ skipped = [u \in AllUrls |-> None]
    /\ drift = [u \in AllUrls |-> None]
    /\ unsaved = [u \in AllUrls |-> None]

NormFetch ==
    /\ pc = "fetch_page_text"
    /\ loc' = [loc EXCEPT !.text = page_text(loc.url, loc.raw_text)]
    /\ pc' = "fetched"
    /\ UNCHANGED <<script, started, files, run, now, exit, NTFY_TOPIC_URL, idx, changed_any,
                   DynVars, StaticVars, state, sent, History>>

NormAgain ==
    /\ pc = "fetched"
    /\ loc' = [loc EXCEPT !.again = page_text(loc.url, loc.text)]
    /\ pc' = "normalized_twice"
    /\ UNCHANGED <<script, started, files, run, now, exit, NTFY_TOPIC_URL, idx, changed_any,
                   DynVars, StaticVars, state, sent, History>>

NextNormalize == NormFetch \/ NormAgain
SpecNormalize == NormInit /\ [][NextNormalize]_vars

\* The texts given to summarize_diff: the section headings 11, 12, ... in
\* order, and in the gap before, between and after them a filler: nothing, a
\* short token, two short tokens ("3BR studio": 10 characters, one of them
\* a blank) or a listing sentence.
RECURSIVE skeleton(_, _)
skeleton(gaps, k) ==
    IF k > Len(gaps) THEN <<>>
    ELSE gaps[k] \o (IF k < Len(gaps) THEN <<10 + k>> ELSE <<>>) \o skeleton(gaps, k + 1)
NewFill == {<<>>, <<3>>, <<3, 5>>, <<1>>}
\* The new texts: any filler in each odd gap, one filler in all the even gaps.
NewTexts ==
    {StaticText(skeleton([k \in 1..(MaxAnchors + 1) |->
                             IF k % 2 = 1 THEN odd[(k + 1) \div 2] ELSE even], 1)) :
        odd \in [1..((MaxAnchors + 2) \div 2) -> NewFill], even \in NewFill}
\* The old texts: the headings, with another sentence in none, in the first
\* half or in all of the gaps.
OldTexts ==
    {StaticText(skeleton([k \in 1..(MaxAnchors + 1) |-> IF k <= n THEN <<2>> ELSE <<>>], 1)) :
        n \in {0, (MaxAnchors + 1) \div 2, MaxAnchors + 1}}

\* summarize_diff applied to an old and a new text.
SummarizeInit ==
    /\ script = "static"
    /\ pc = "summarize_diff"
    /\ loc \in {[old_text |-> o, new_text |-> n, diff_summary |-> None] :
                  o \in OldTexts, n \in NewTexts}
    /\ files = [f \in FileNames |-> AbsentFile]
    /\ run = 0 /\ now = 0 /\ started = 0 /\ exit = "none" /\ idx = 1
    /\ NTFY_TOPIC_URL = ""
    /\ changed_any = FALSE
    /\ apt_state = EmptyDoc /\ text_state = EmptyDoc
    /\ hashes = EmptyDoc /\ texts = EmptyDoc /\ tfc_income_state = EmptyDoc
    /\ state = EmptyDoc
    /\ sent = <<>>
    /\ consec = [u \in AllUrls |-> 0]
    /\ last_delivered = [u \in AllUrls |-> 0]
    /\ skipped = [u \in AllUrls |-> None]
    /\ drift = [u \in AllUrls |-> None]
    /\ unsaved = [u \in AllUrls |-> None]

Summarize ==
    /\ pc = "summarize_diff"
    /\ loc' = [loc EXCEPT !.diff_summary = summarize_diff(loc.old_text, loc.new_text)]
    /\ pc' = "summarized"
    /\ UNCHANGED <<script, started, files, run, now, exit, NTFY_TOPIC_URL, idx, changed_any,
                   DynVars, StaticVars, state, sent, History>>

NextSummarize == Summarize
SpecSummarize == SummarizeInit /\ [][NextSummarize]_vars

\* ===================================================================== claims
\* The loop body of run_dynamic_once has just run for loc.url and the fetch
\* returned a text.
DynFetched == script = "dynamic" /\ pc = "loop" /\ loc.text # None

\* The stored baseline document of the running script, as loaded at run start
\* (the loop does not write these files).
StoredApts == load_json(files, APT_FILE)

\* The call recorded in `sent` is a send_ntfy_alert call for loc.url at
\* priority p, posted to ntfy whenever a topic is configured.
AlertCalled(p) ==
    /\ Len(sent) = 1
    /\ sent[1].url = loc.url
    /\ sent[1].priority = p
    /\ (sent[1].result = "unconfigured") = (NTFY_TOPIC_URL = "")

\* C1 (as stated): after a successful fetch of a source that has a stored
\* baseline, if new - baseline is non-empty then a notification at priority 4
\* was sent and the source's baseline is exactly the new identifier set.
C1_AsStated ==
    (/\ DynFetched
     /\ loc.url \in DOMAIN StoredApts
     /\ loc.new_apartments \ set(StoredApts[loc.url]) # {})
    => /\ \E k \in 1..Len(sent) : sent[k].priority = "4"
       /\ set(Get(apt_state, loc.url, <<>>)) = loc.new_apartments

\* C1 (amended): after a successful fetch of a source whose stored baseline is
\* non-empty, if new - baseline is non-empty and neither new - baseline nor
\* baseline - new has more than 25 identifiers, then send_ntfy_alert was
\* called once with priority "4" (posted when NTFY_TOPIC_URL is set) and the
\* source's baseline is exactly the new identifier set, marked for saving.
C1_NewListingsAlert ==
    (/\ DynFetched
     /\ loc.old_apartments # {}
     /\ loc.new_apartments \ loc.old_apartments # {}
     /\ Cardinality(loc.new_apartments \ loc.old_apartments) <= MASSIVE_CHANGE
     /\ Cardinality(loc.old_apartments \ loc.new_apartments) <= MASSIVE_CHANGE)
    => /\ AlertCalled("4")
       /\ loc.url \in DOMAIN apt_state
       /\ set(apt_state[loc.url]) = loc.new_apartments
       /\ apt_state[loc.url] = sorted(loc.new_apartments)
       /\ changed_any

\* Scenario A: baseline {1}, new snapshot {1, 2}, alert delivered.
C1_Witness ==
    /\ DynFetched
    /\ loc.old_apartments = {1}
    /\ loc.new_apartments = {1, 2}
    /\ Len(sent) = 1 /\ sent[1].priority = "4" /\ sent[1].result = "delivered"
    /\ set(apt_state[loc.url]) = {1, 2}


\* The loop body of monitor.py's run_once has just run for loc.url and the
\* fetch returned a text; likewise for the workflow script and its hash.
StaticFetched == script = "static" /\ pc = "loop" /\ loc.url # "" /\ loc.new_text # None
WfFetched == script = "workflow" /\ pc = "loop" /\ loc.url # "" /\ loc.new_hash # None

\* C2: the first successful fetch of a source that has no stored baseline
\* records the snapshot as the baseline (INIT) and sends no notification,
\* whatever was extracted: in run_dynamic_once, in both branches of
\* monitor.py's run_once, and in the workflow's run_once.
C2_FirstFetchIsSilent ==
    /\ (DynFetched /\ loc.url \notin DOMAIN StoredApts)
       => /\ sent = <<>> /\ loc.branch = "INIT" /\ changed_any
          /\ Get(apt_state, loc.url, None) = sorted(loc.new_apartments)
          /\ set(Get(apt_state, loc.url, <<>>)) = loc.new_apartments
          /\ Get(text_state, loc.url, None) = loc.text
    /\ (StaticFetched /\ loc.url # TFC_URL
          /\ (\/ loc.url \notin DOMAIN static_load_json(files, TEXT_FILE)
              \/ loc.url \notin DOMAIN static_load_json(files, HASH_FILE)))
       => /\ sent = <<>> /\ loc.branch = "INIT" /\ changed_any
          /\ Get(texts, loc.url, None) = loc.new_text
          /\ Get(hashes, loc.url, None) = hash_text(loc.new_text)
    /\ (StaticFetched /\ loc.url = TFC_URL
          /\ loc.url \notin DOMAIN static_load_json(files, TFC_INCOME_FILE))
       => /\ sent = <<>> /\ loc.branch = "INIT" /\ changed_any
          /\ set(Get(tfc_income_state, loc.url, <<>>)) = loc.new_set
          /\ Get(texts, loc.url, None) = loc.new_text
    /\ (WfFetched /\ loc.url \notin DOMAIN load_state(files))
       => /\ sent = <<>> /\ loc.branch = "INIT" /\ changed_any
          /\ Get(state, loc.url, None) = loc.new_hash

\* A first fetch that extracts identifiers: recorded, nothing sent.
C2_Witness ==
    /\ DynFetched /\ loc.url = EVH_URL /\ loc.url \notin DOMAIN StoredApts
    /\ loc.new_apartments = 1..5
    /\ loc.branch = "INIT" /\ sent = <<>>
    /\ NTFY_TOPIC_URL # ""

\* An iteration of the loop body ends in this step (normally, or by raising).
IterationEnds == pc = "loop" /\ (idx' = idx + 1 \/ exit' = "raised")

DiffOf(added, removed, A, B) ==
    /\ added \cap removed = {}
    /\ \A x \in A \cup B \cup added \cup removed :
          /\ (x \in added) = (x \in B /\ x \notin A)
          /\ (x \in removed) = (x \in A /\ x \notin B)

\* C4: in the diff step of run_dynamic_once and in
\* summarize_tfc_income_changes, for the stored set A and the new set B,
\* added = B - A, removed = A - B and added, removed are disjoint.
C4_DiffCorrect ==
    /\ (DynFetched /\ loc.branch \in {"NOCHANGE", "SKIP", "CHANGE"})
       => /\ loc.old_apartments = set(Get(StoredApts, loc.url, <<>>))
          /\ DiffOf(loc.added, loc.removed, loc.old_apartments, loc.new_apartments)
    /\ (script = "static" /\ loc.url = TFC_URL /\ loc.branch = "CHANGE")
       => /\ loc.summary # None
          /\ DiffOf(loc.summary.added, loc.summary.removed, loc.old_set, loc.new_set)

\* A change that both adds and removes identifiers.
C4_Witness ==
    /\ DynFetched /\ loc.branch = "CHANGE"
    /\ loc.old_apartments = {1, 2} /\ loc.new_apartments = {2, 3}
    /\ loc.added = {3} /\ loc.removed = {1}

\* C5 (as stated): when a source with a non-empty stored baseline fetches
\* successfully and extraction yields the empty identifier set on text that
\* still holds listing vocabulary, the stored baseline is left unchanged.
C5_AsStated ==
    (/\ DynFetched
     /\ loc.old_apartments # {}
     /\ loc.new_apartments = {}
     /\ loc.text.vocab)
    => set(Get(apt_state, loc.url, <<>>)) = loc.old_apartments

\* C6 (as stated): on the run in which a source's consecutive-failure count
\* reaches the threshold of 3, an 'unreachable' notification is sent.
C6_AsStated ==
    (/\ script = "dynamic" /\ pc = "loop" /\ loc.branch = "FAIL"
     /\ Get(load_json(files, FAILURE_FILE), loc.url, 0) = 3)
    => sent # <<>>

\* C7: the persisted failure counter of every source equals the number of
\* times its fetch failed (fetch_rendered_text returned None) since its last
\* successful fetch; a success removes the key; neither the increment nor the
\* reset sends a notification.
C7_FailureCounter ==
    script = "dynamic" =>
        /\ files[FAILURE_FILE].st \in {"absent", "ok"}
        /\ \A u \in set(DYNAMIC_URLS) :
              /\ Get(load_json(files, FAILURE_FILE), u, 0) = consec[u]
              /\ (u \in DOMAIN load_json(files, FAILURE_FILE)) = (consec[u] > 0)
        /\ (pc = "loop" /\ loc.branch \in {"FAIL", "INIT", "NOCHANGE", "SKIP"})
              => sent = <<>>

\* Two failures in a row, the second one a fetch skipped by the cooldown.
C7_Witness ==
    /\ script = "dynamic" /\ pc = "loop" /\ loc.branch = "FAIL"
    /\ loc.url = EVH_URL /\ loc.attempts = 0
    /\ Get(load_json(files, FAILURE_FILE), EVH_URL, 0) = 2
    /\ CGM_URL \notin DOMAIN load_json(files, FAILURE_FILE)

\* C8 (as stated): of two content changes detected for the same source in
\* two runs that fall within the content-change cooldown window, only the
\* first is delivered. The window is a configured value; it is taken to be
\* any window that covers two consecutive scheduled runs.
C8_AsStated ==
    [][ \A u \in DOMAIN last_delivered :
          (/\ script = "dynamic"
           /\ last_delivered'[u] # last_delivered[u]
           /\ last_delivered[u] # 0)
          => \A t \in Ticks : now' - last_delivered[u] > t
      ]_vars

\* C9 (as stated): a kill of the process at any point of a state save leaves
\* every state document complete (its prior or its new content), never
\* truncated or partially written.
C9_AsStated == \A f \in FileNames : files[f].st \in {"absent", "ok"}

\* C10 (as stated): whatever fails while one source is processed, every run
\* processes every source of its list.
C10_AsStated == (pc = "idle" /\ run > 0) => idx > Len(EndUrls)


\* C11 (as stated): a notification-transport failure (endpoint unreachable,
\* non-2xx answer, endpoint not configured) is handled by one policy at every
\* notification call site: every site ends the run with the error, or every
\* site logs it and continues.
C11_AsStated ==
    (\E k \in 1..Len(sent) : sent[k].result # "delivered")
    => \A net \in Nets :
          (NTFY_TOPIC_URL = "" \/ net # "2xx")
          => \A s, t \in Scripts :
                send_raises(s, NTFY_TOPIC_URL, net) = send_raises(t, NTFY_TOPIC_URL, net)


\* C12 (as stated): a state-store write error is logged and the run
\* continues without crashing.
C12_AsStated == exit # "oserror"


\* C13 (as stated): a fetch failure for a source bypasses the diff and alert
\* steps: the run leaves the source's stored baseline unchanged, sends no
\* notification for it, and hands the failure to the failure tracker, which
\* counts it.
C13_AsStated ==
    [][ (IterationEnds /\ loc'.branch = "FAIL")
        => /\ sent' = <<>>
           /\ apt_state' = apt_state /\ text_state' = text_state
           /\ hashes' = hashes /\ texts' = texts
           /\ tfc_income_state' = tfc_income_state /\ state' = state
           /\ \A f \in FileNames \ {FAILURE_FILE, COOLDOWN_FILE} : files'[f] = files[f]
           /\ Get(load_json(files', FAILURE_FILE), loc'.url, 0)
                = Get(load_json(files, FAILURE_FILE), loc'.url, 0) + 1
      ]_vars

\* C14: fetch_rendered_html makes at most max_retries attempts for a source
\* in one run; when the last one fails the fetch is reported as a failure
\* (None: the failure is counted and the fetch cooldown set), and the run
\* moves on to the next source.
C14_BoundedRetries ==
    (script = "dynamic" /\ pc = "loop" /\ loc.url # "")
    => /\ loc.attempts \in 0..max_retries
       /\ (loc.text # None) = (loc.branch # "FAIL")
       /\ loc.text # None => loc.attempts >= 1
       /\ (loc.branch = "FAIL" /\ loc.attempts > 0)
          => /\ loc.attempts = max_retries
             /\ Get(load_json(files, FAILURE_FILE), loc.url, 0) >= 1
             /\ Get(load_json(files, COOLDOWN_FILE), loc.url, 0) = now + FETCH_COOLDOWN
       /\ idx >= 2 /\ DYNAMIC_URLS[idx - 1] = loc.url

\* Every attempt for the first source failed; the loop is at the second.
C14_Witness ==
    /\ script = "dynamic" /\ pc = "loop" /\ loc.branch = "FAIL"
    /\ loc.url = CGM_URL /\ loc.attempts = max_retries
    /\ idx = 2 /\ DYNAMIC_URLS[idx] = EVH_URL


\* C15 (as stated): when a change has no added identifiers and more than 3
\* removed ones, a 'listings removed' notification is sent at ntfy priority
\* 2, never at high priority.
C15_AsStated ==
    (/\ DynFetched
     /\ loc.new_apartments \ loc.old_apartments = {}
     /\ Cardinality(loc.old_apartments \ loc.new_apartments) > MIN_REMOVED)
    => /\ AlertCalled("2")
       /\ \A k \in 1..Len(sent) : sent[k].priority = "2"

\* C15 (amended): when a change has no added identifiers and more than 3 but
\* at most 25 removed ones, send_ntfy_alert is called once, with priority
\* "2"; no call is made with priority "4".
C15_RemovedAlert ==
    (/\ DynFetched
     /\ loc.new_apartments \ loc.old_apartments = {}
     /\ Cardinality(loc.old_apartments \ loc.new_apartments) > MIN_REMOVED
     /\ Cardinality(loc.old_apartments \ loc.new_apartments) <= MASSIVE_CHANGE)
    => /\ loc.branch = "CHANGE"
       /\ AlertCalled("2")
       /\ format_apartment_changes(loc.added, loc.removed).removed
            = Cardinality(loc.removed)

\* Four of five listings disappear: one priority-2 notification, delivered.
C15_Witness ==
    /\ DynFetched /\ loc.old_apartments = 1..5 /\ loc.new_apartments = {1}
    /\ loc.added = {} /\ Cardinality(loc.removed) = 4
    /\ Len(sent) = 1 /\ sent[1].priority = "2" /\ sent[1].result = "delivered"

\* C16 (as stated): when a successful fetch yields only minor changes (no
\* added identifiers, at most 3 removed) or no change, no notification is
\* sent and the baseline (identifiers and text) is updated to the new snapshot.
C16_AsStated ==
    (/\ DynFetched
     /\ loc.new_apartments \ loc.old_apartments = {}
     /\ Cardinality(loc.old_apartments \ loc.new_apartments) <= MIN_REMOVED)
    => /\ sent = <<>>
       /\ set(Get(apt_state, loc.url, <<>>)) = loc.new_apartments
       /\ Get(text_state, loc.url, None) = loc.text

\* C16 (amended): with no added identifiers and at most 3 removed ones no
\* notification is sent and the identifier baseline equals the new snapshot;
\* when identifiers were removed the baseline (identifiers and text) is
\* rewritten from the new snapshot, and when a non-empty set is unchanged
\* the run takes the NOCHANGE branch, which stores nothing.
C16_MinorChange ==
    (/\ DynFetched
     /\ loc.new_apartments \ loc.old_apartments = {}
     /\ Cardinality(loc.old_apartments \ loc.new_apartments) <= MIN_REMOVED)
    => /\ sent = <<>>
       /\ loc.url \in DOMAIN apt_state
       /\ apt_state[loc.url] = sorted(loc.new_apartments)
       /\ (loc.old_apartments \ loc.new_apartments # {})
          => /\ loc.branch = "CHANGE" /\ changed_any
             /\ Get(text_state, loc.url, None) = loc.text
       /\ (loc.old_apartments = loc.new_apartments /\ loc.new_apartments # {})
          => loc.branch = "NOCHANGE"

\* One of two listings disappears: stored, nothing sent.
C16_Witness ==
    /\ DynFetched /\ loc.branch = "CHANGE"
    /\ loc.old_apartments = {1, 2} /\ loc.new_apartments = {1}
    /\ sent = <<>> /\ apt_state[loc.url] = <<1>> /\ text_state[loc.url] = loc.text
    /\ NTFY_TOPIC_URL # ""


\* C17 (as stated): when extraction produces an implausibly large identifier
\* set (above the ceiling of 50), the result is discarded and the source has
\* no usable snapshot in this run: the stored baseline is preserved and no
\* change notification is sent.
C17_AsStated ==
    (/\ DynFetched
     /\ loc.url # CGM_URL
     /\ Cardinality(loc.text.units) > GENERIC_CAP
     /\ loc.old_apartments # {})
    => /\ sent = <<>>
       /\ set(Get(apt_state, loc.url, <<>>)) = loc.old_apartments

\* C18 (as stated): when the strategy registered for a source returns the
\* empty set on listing-like input, extract_apartment_ids falls back to the
\* generic strategy and returns its result.
C18_AsStated ==
    (/\ DynFetched
     /\ loc.url = CGM_URL
     /\ extract_ids_cgm(loc.text) = {}
     /\ loc.text.vocab)
    => /\ extract_apartment_ids(loc.text, loc.url) = extract_ids_generic(loc.text)
       /\ loc.new_apartments
            = {a \in extract_ids_generic(loc.text) : is_valid_apartment_id(a)}


\* C19 (as stated): content normalization is idempotent: the pipeline of
\* fetch_page_text (line trimming, per-source content window, relevance
\* filter, whitespace collapse) applied to its own output returns that
\* output unchanged, for every input text and source.
C19_AsStated == pc = "normalized_twice" => loc.again = loc.text


\* Every identifier of every list of the document passes is_valid_apartment_id.
AllValid(doc) ==
    \A u \in DOMAIN doc : \A a \in set(doc[u]) : is_valid_apartment_id(a)

LongAdded(old_text, new_text) ==
    LET b == Tokens(new_text)
        ops == get_opcodes(Tokens(old_text), b)
    IN Cardinality({k \in 1..Len(ops) :
            /\ ops[k][1] \in {"insert", "replace"}
            /\ SegLen(b, ops[k][4], ops[k][5] - 1) >= MIN_SEGMENT})
LongRemoved(old_text, new_text) ==
    LET a == Tokens(old_text)
        ops == get_opcodes(a, Tokens(new_text))
    IN Cardinality({k \in 1..Len(ops) :
            /\ ops[k][1] \in {"delete", "replace"}
            /\ SegLen(a, ops[k][2], ops[k][3] - 1) >= MIN_SEGMENT})
Min(x, y) == IF x < y THEN x ELSE y

RECURSIVE NonBlankLen(_, _, _)
\* The number of characters of a[lo..hi] that are not blanks.
NonBlankLen(a, lo, hi) ==
    IF lo > hi THEN 0
    ELSE (IF a[lo] = SP THEN 0 ELSE TokLen(a[lo])) + NonBlankLen(a, lo + 1, hi)

\* C21 (as stated): summarize_diff emits at most max_snippets snippets,
\* additions first, and only for changed regions of at least 10 non-blank
\* characters.
C21_AsStated ==
    (pc = "summarized" /\ loc.diff_summary # None)
    => /\ Len(loc.diff_summary.snippets) <= max_snippets
       /\ \A k \in 1..Len(loc.diff_summary.snippets) :
            LET snippet == loc.diff_summary.snippets[k] IN
            NonBlankLen(IF snippet.sign = "+" THEN Tokens(loc.new_text)
                        ELSE Tokens(loc.old_text), snippet.lo, snippet.hi)
                >= MIN_SEGMENT

\* C21 (amended): summarize_diff emits at most max_snippets snippets, the
\* additions first and removals only in the slots the additions leave, each
\* for a changed region that is at least 10 characters long once the blanks
\* around it are stripped (the blanks inside it count); it returns None when
\* no region qualifies; a summary longer than max_chars is cut to max_chars
\* and followed by the truncation marker.
C21_SummaryShape ==
    pc = "summarized" =>
        LET s == loc.diff_summary
            adds == LongAdded(loc.old_text, loc.new_text)
            rems == LongRemoved(loc.old_text, loc.new_text)
        IN /\ (s = None) = (adds = 0 /\ rems = 0)
           /\ s # None =>
                LET n == Len(s.snippets)
                    plus == {k \in 1..n : s.snippets[k].sign = "+"}
                    minus == {k \in 1..n : s.snippets[k].sign = "-"}
                IN /\ n \in 1..max_snippets
                   /\ plus \cup minus = 1..n
                   /\ Cardinality(plus) = Min(adds, max_snippets)
                   /\ Cardinality(minus) = Min(rems, max_snippets - Cardinality(plus))
                   /\ \A i \in plus, j \in minus : i < j
                   /\ \A k \in plus :
                        SegLen(Tokens(loc.new_text), s.snippets[k].lo, s.snippets[k].hi)
                            >= MIN_SEGMENT
                   /\ \A k \in minus :
                        SegLen(Tokens(loc.old_text), s.snippets[k].lo, s.snippets[k].hi)
                            >= MIN_SEGMENT
                   /\ s.truncated = (joined_chars(s.snippets) > max_chars)
                   /\ s.chars = IF joined_chars(s.snippets) > max_chars
                                THEN max_chars + MARKER_CHARS
                                ELSE joined_chars(s.snippets)

\* Six long additions and six long removals: the five snippets are the first
\* five additions, and the summary is cut.
C21_Witness ==
    /\ pc = "summarized"
    /\ LongAdded(loc.old_text, loc.new_text) = max_snippets + 1
    /\ LongRemoved(loc.old_text, loc.new_text) > 0
    /\ loc.diff_summary # None
    /\ Len(loc.diff_summary.snippets) = max_snippets
    /\ \A k \in 1..max_snippets : loc.diff_summary.snippets[k].sign = "+"
    /\ loc.diff_summary.truncated
    /\ loc.diff_summary.chars = max_chars + MARKER_CHARS


\* C22: in run_dynamic_once a source whose stored baseline is the empty
\* identifier list is treated like a source with no stored baseline: the next
\* successful fetch takes the INIT branch, records whatever was extracted
\* (identifiers and text) as the baseline and sends no notification, also
\* when identifiers were extracted.
C22_EmptyBaselineIsInit ==
    (/\ DynFetched
     /\ set(Get(StoredApts, loc.url, <<>>)) = {})
    => /\ loc.branch = "INIT"
       /\ sent = <<>>
       /\ loc.url \in DOMAIN apt_state
       /\ apt_state[loc.url] = sorted(loc.new_apartments)
       /\ set(apt_state[loc.url]) = loc.new_apartments
       /\ Get(text_state, loc.url, None) = loc.text
       /\ changed_any

\* A stored empty list, then a page with two listings: recorded, nothing sent
\* although a topic is configured.
C22_Witness ==
    /\ DynFetched
    /\ loc.url \in DOMAIN StoredApts /\ StoredApts[loc.url] = <<>>
    /\ loc.new_apartments = {1, 2}
    /\ loc.branch = "INIT" /\ sent = <<>>
    /\ apt_state[loc.url] = <<1, 2>>
    /\ NTFY_TOPIC_URL # ""


\* C23 (as stated): when more than 25 identifiers are added or more than 25
\* are removed relative to the stored baseline, the run sends no notification
\* and leaves the baseline unchanged.
C23_AsStated ==
    (/\ DynFetched
     /\ loc.url \in DOMAIN StoredApts
     /\ \/ Cardinality(loc.new_apartments \ set(StoredApts[loc.url])) > MASSIVE_CHANGE
        \/ Cardinality(set(StoredApts[loc.url]) \ loc.new_apartments) > MASSIVE_CHANGE)
    => /\ sent = <<>>
       /\ Get(apt_state, loc.url, None) = StoredApts[loc.url]

\* C23 (amended): when the stored baseline of the source is non-empty and
\* more than 25 identifiers are added or more than 25 are removed relative to
\* it, the iteration takes the SKIP branch: it sends no notification and
\* leaves the baseline (identifiers and text) and changed_any as they were;
\* and when the last successful fetch of a source was skipped and this fetch
\* yields the same identifier set, it meets the same baseline and is skipped
\* again.
C23_SkipRepeats ==
    [][ (IterationEnds /\ script = "dynamic" /\ loc'.text # None) =>
        /\ (/\ loc'.old_apartments # {}
            /\ \/ Cardinality(loc'.new_apartments \ loc'.old_apartments) > MASSIVE_CHANGE
               \/ Cardinality(loc'.old_apartments \ loc'.new_apartments) > MASSIVE_CHANGE)
           => /\ loc'.branch = "SKIP"
              /\ sent' = <<>>
              /\ apt_state' = apt_state /\ text_state' = text_state
              /\ changed_any' = changed_any
              /\ files'[APT_FILE] = files[APT_FILE]
              /\ files'[DYN_TEXT_FILE] = files[DYN_TEXT_FILE]
              /\ set(apt_state'[loc'.url]) = loc'.old_apartments
              /\ set(apt_state'[loc'.url]) # loc'.new_apartments
        /\ (/\ skipped[loc'.url] # None
            /\ skipped[loc'.url].ids = loc'.new_apartments)
           => /\ loc'.branch = "SKIP"
              /\ loc'.old_apartments = skipped[loc'.url].old
              /\ sent' = <<>>
      ]_vars

\* The page yields the same 28 identifiers in two runs in a row: both are
\* skipped against the baseline {1}, which is still stored.
C23_Witness ==
    /\ DynFetched /\ loc.branch = "SKIP"
    /\ skipped[loc.url] # None /\ skipped[loc.url].times = 2
    /\ loc.new_apartments = 1..(MASSIVE_CHANGE + 3)
    /\ loc.old_apartments = {1}
    /\ apt_state[loc.url] = <<1>> /\ StoredApts[loc.url] = <<1>>
    /\ sent = <<>>


\* The cooldown recorded for the URL in dynamic_cooldowns.json (0: none).
CooldownUntil(fs, url) == Get(load_json(fs, COOLDOWN_FILE), url, 0)
FailureCount(fs, url) == Get(load_json(fs, FAILURE_FILE), url, 0)

\* C24 (as stated): a run that starts while the cooldown of a source is
\* active makes no fetch attempt for that source.
C24_AsStated ==
    [][ (/\ IterationEnds /\ script = "dynamic"
         /\ started < CooldownUntil(files, loc'.url))
        => loc'.attempts = 0
      ]_vars

\* C24 (amended): when all fetch attempts for a source fail, a cooldown of
\* 300 seconds from that moment is recorded for it; a fetch of the source
\* made while the cooldown is active (time.time() < the recorded time) makes
\* no attempt and returns None, and run_dynamic_once increments the source's
\* failure counter by one for it; a fetch made when the cooldown is over
\* makes an attempt.
C24_CooldownSkips ==
    [][ (IterationEnds /\ script = "dynamic") =>
        /\ (now < CooldownUntil(files, loc'.url))
           => /\ loc'.attempts = 0
              /\ loc'.text = None /\ loc'.branch = "FAIL"
              /\ FailureCount(files', loc'.url) = FailureCount(files, loc'.url) + 1
              /\ files'[COOLDOWN_FILE] = files[COOLDOWN_FILE]
              /\ sent' = <<>>
              /\ apt_state' = apt_state /\ text_state' = text_state
        /\ (now >= CooldownUntil(files, loc'.url)) => loc'.attempts >= 1
        /\ (loc'.branch = "FAIL" /\ loc'.attempts > 0)
           => /\ loc'.attempts = max_retries
              /\ CooldownUntil(files', loc'.url) = now + FETCH_COOLDOWN
              /\ FailureCount(files', loc'.url) = FailureCount(files, loc'.url) + 1
      ]_vars

\* The fetch is skipped inside the cooldown that the failure of the run
\* before recorded, and the skipped fetch is counted as the second failure.
C24_Witness ==
    /\ script = "dynamic" /\ pc = "loop" /\ loc.branch = "FAIL"
    /\ loc.url = CGM_URL /\ loc.attempts = 0
    /\ run = 2
    /\ now < CooldownUntil(files, CGM_URL)
    /\ FailureCount(files, CGM_URL) = 2


\* C26: in the generic branch of monitor.py, when a text and a hash are
\* stored for the URL, the hash of the new text differs and summarize_diff
\* returns None, the iteration sends nothing and does not raise, and it
\* overwrites the text and the hash held for the URL and sets changed_any;
\* and while a text is overwritten in this way, run after run, no
\* notification for the URL is delivered, whatever the difference between the
\* text held now and the text the overwrites started from.
C26_SilentDrift ==
    [][ /\ (/\ IterationEnds /\ script = "static"
            /\ loc'.url # TFC_URL /\ loc'.new_text # None
            /\ Get(texts, loc'.url, None) # None
            /\ Get(hashes, loc'.url, None) # None
            /\ hash_text(loc'.new_text) # Get(hashes, loc'.url, None)
            /\ summarize_diff(Get(texts, loc'.url, None), loc'.new_text) = None)
           => /\ sent' = <<>> /\ exit' # "raised"
              /\ loc'.branch = "CHANGE" /\ loc'.summary = None
              /\ Get(texts', loc'.url, None) = loc'.new_text
              /\ Get(hashes', loc'.url, None) = hash_text(loc'.new_text)
              /\ changed_any'
              /\ last_delivered' = last_delivered
              /\ drift'[loc'.url] # None
              /\ drift'[loc'.url].steps
                    = (IF drift[loc'.url] = None THEN 0 ELSE drift[loc'.url].steps) + 1
        /\ \A u \in DOMAIN drift' :
              drift'[u] # None => last_delivered'[u] = drift'[u].at
      ]_vars

\* Two runs in a row overwrote the text of the page without a notification
\* ("3BR" appeared, then "studio"), and both overwrites are on disk; the text
\* stored now differs from the text the overwrites started from by a region
\* that summarize_diff reports when it is given the two.
C26_Witness ==
    /\ script = "static" /\ pc = "idle" /\ exit = "ok" /\ run = 3
    /\ NTFY_TOPIC_URL # ""
    /\ drift[IHR_URL] # None /\ drift[IHR_URL].steps = 2
    /\ drift[IHR_URL].from = StaticText(<<1>>)
    /\ Get(static_load_json(files, TEXT_FILE), IHR_URL, None) = StaticText(<<1, 3, 5>>)
    /\ Get(static_load_json(files, HASH_FILE), IHR_URL, None)
          = hash_text(StaticText(<<1, 3, 5>>))
    /\ summarize_diff(drift[IHR_URL].from, StaticText(<<1, 3, 5>>)) # None
    /\ last_delivered[IHR_URL] = 0


\* The documents that hold the baselines of monitor.py and monitor_dynamic.py.
BaselineFiles == {HASH_FILE, TEXT_FILE, TFC_INCOME_FILE, APT_FILE, DYN_TEXT_FILE}

\* C25: no step taken inside the loop of a run writes a baseline document
\* (they are written after the last source only); a notification of
\* monitor.py that is not delivered raises, and an iteration whose
\* notification raises ends the run after the attempt, with nothing written;
\* and when the next run fetches for a source the text that
\* an iteration of a run ended in this way had fetched, its iteration has the
\* same locals again (the same branch, the same old and new sets, the same
\* summary) and attempts the notification again if there is one to send.
C25_UnsavedIsRedetected ==
    [][ /\ (pc = "loop" /\ exit' # "ok")
           => \A f \in BaselineFiles : files'[f] = files[f]
        /\ (pc = "loop" /\ idx <= Len(IF script = "static" THEN URLS ELSE DYNAMIC_URLS)
            /\ script \in {"static", "dynamic"})
           => exit' # "ok"
        /\ (IterationEnds /\ exit' = "raised")
           => /\ script = "static"
              /\ files' = files
              /\ sent' # <<>>
              /\ \A k \in 1..Len(sent') : sent'[k].result # "delivered"
        /\ (/\ IterationEnds /\ script = "static"
            /\ \E k \in 1..Len(sent') : sent'[k].result # "delivered")
           => exit' = "raised"
        /\ (/\ IterationEnds /\ script = "static"
            /\ unsaved[loc'.url] # None
            /\ loc'.new_text = unsaved[loc'.url].loc.new_text)
           => /\ loc' = unsaved[loc'.url].loc
              /\ unsaved'[loc'.url].times = unsaved[loc'.url].times + 1
              /\ (loc'.summary # None) => sent' # <<>>
      ]_vars

\* The page of the first source changed, the notification was delivered, and
\* the run ended in the notification of the second source raising; the next
\* run found the same change against the baseline still on disk and
\* delivered the same notification a second time.
C25_Witness ==
    /\ script = "static" /\ pc = "loop" /\ run = 3
    /\ loc.url = IHR_URL /\ loc.branch = "CHANGE" /\ loc.summary # None
    /\ unsaved[IHR_URL] # None
    /\ unsaved[IHR_URL].loc = loc
    /\ unsaved[IHR_URL].times = 2 /\ unsaved[IHR_URL].delivered = 2
    /\ unsaved[TFC_URL] # None /\ unsaved[TFC_URL].delivered = 0
    /\ Get(static_load_json(files, TEXT_FILE), IHR_URL, None) # loc.new_text


====
